---- MODULE Spec2Model ----
(***************************************************************************)
(* A model of the write-ahead-log record codec (log::Writer, log::Reader)  *)
(* of the repository.                                                      *)
(*                                                                         *)
(* Byte strings (Slice, std::string, file contents) are kept run-length    *)
(* encoded: a sequence of runs [b |-> byte, n |-> count], n > 0, no two    *)
(* adjacent runs with the same byte.  The encoding is canonical, so two    *)
(* byte strings are equal exactly when their encodings are equal, and the  *)
(* model can work with the program's real block size.                      *)
(***************************************************************************)
EXTENDS Integers, Sequences, FiniteSets, TLC

VARIABLES
  writer,    \* the log::Writer and the file it appends to
  written,   \* the slices passed to AddRecord, in order
  damage,    \* what happened to the file after the writer stopped
  reader,    \* the log::Reader, its file and its reporter
  results,   \* the outcome of each ReadRecord call, in order
  phase,     \* "write": the log is being written; "read": a Reader is open
  world,     \* the table file, the block cache, the blocks and block iterators
  table,     \* the Table, once Table::Open was called, and the status of Open
  calls,     \* the calls made on the table and what they returned, in order
  tfault,    \* what was done to the table file before it was opened
  threads,   \* where each thread is in the call it makes on the table
  builder,   \* a BlockBuilder
  twin,      \* a BlockBuilder constructed where `builder` was last reset
  bcalls,    \* the calls made on the builder since it was constructed or reset
  resets,    \* the Reset calls made on the builder
  footer_,   \* a Footer
  encoded,   \* the string a Footer was encoded into
  decoded,   \* what Footer::DecodeFrom made of that string
  original   \* what the string held before Footer::EncodeTo

(***************************************************************************)
(* Bounds of the model.                                                    *)
(***************************************************************************)
MaxRecords == 2
MaxReads == 3
MaxFailAt == 1
MaxCalls == 2
MaxBuilderCalls == 5
MaxResets == 1

(***************************************************************************)
(* Log format (log_format.h).                                              *)
(***************************************************************************)
kZeroType == 0
kFullType == 1
kFirstType == 2
kMiddleType == 3
kLastType == 4
kMaxRecordType == kLastType
kBlockSize == 32768
kHeaderSize == 4 + 2 + 1
\* Reader's extra return values of ReadPhysicalRecord (log_reader.h).
kEof == kMaxRecordType + 1
kBadRecord == kMaxRecordType + 2

(***************************************************************************)
(* Byte strings.                                                           *)
(***************************************************************************)
\* std::string(n, b) / Slice(p, n) over n equal bytes
Rep(b, n) == IF n <= 0 THEN <<>> ELSE <<[b |-> b, n |-> n]>>

RECURSIVE Size(_)
Size(s) == IF s = <<>> THEN 0 ELSE Head(s).n + Size(Tail(s))

\* std::string::append
Concat(s, t) ==
  IF s = <<>> THEN t
  ELSE IF t = <<>> THEN s
  ELSE IF s[Len(s)].b = t[1].b
       THEN SubSeq(s, 1, Len(s) - 1)
              \o <<[b |-> t[1].b, n |-> s[Len(s)].n + t[1].n]>> \o Tail(t)
       ELSE s \o t

\* the first k bytes of s
RECURSIVE Prefix(_, _)
Prefix(s, k) ==
  IF k <= 0 \/ s = <<>> THEN <<>>
  ELSE IF Head(s).n <= k THEN <<Head(s)>> \o Prefix(Tail(s), k - Head(s).n)
  ELSE <<[b |-> Head(s).b, n |-> k]>>

\* Slice::remove_prefix
RECURSIVE RemovePrefix(_, _)
RemovePrefix(s, k) ==
  IF k <= 0 \/ s = <<>> THEN s
  ELSE IF Head(s).n <= k THEN RemovePrefix(Tail(s), k - Head(s).n)
  ELSE <<[b |-> Head(s).b, n |-> Head(s).n - k]>> \o Tail(s)

\* Slice(p + from, n)
SubBytes(s, from, n) == Prefix(RemovePrefix(s, from), n)

\* s[i], 0-based
ByteAt(s, i) == Head(RemovePrefix(s, i)).b

\* a byte string given byte by byte
RECURSIVE Bytes(_)
Bytes(q) == IF q = <<>> THEN <<>> ELSE Concat(Rep(Head(q), 1), Bytes(Tail(q)))

(***************************************************************************)
(* 32-bit values are kept as two 16-bit halves <<hi, lo>>.                 *)
(***************************************************************************)
\* the checksum of crc32c::Extend: a position-sensitive running sum over the
\* bytes (lo: sum of the bytes, hi: sum of the running sums)
CrcModulus == 32749

RECURSIVE Extend(_, _)
Extend(crc, data) ==
  IF data = <<>> THEN crc
  ELSE LET b == Head(data).b
           n == Head(data).n
           nm == n % CrcModulus
           tri == IF n % 2 = 0
                  THEN (((n \div 2) % CrcModulus) * ((n + 1) % CrcModulus)) % CrcModulus
                  ELSE (nm * (((n + 1) \div 2) % CrcModulus)) % CrcModulus
           lo == (crc[2] + nm * b) % CrcModulus
           hi == (crc[1] + ((nm * crc[2]) % CrcModulus) + tri * b) % CrcModulus
       IN Extend(<<hi, lo>>, Tail(data))

\* crc32c::Value
Value(data) == Extend(<<0, 0>>, data)

kMaskDeltaHi == 41602
kMaskDeltaLo == 60120

\* crc32c::Mask: ((crc >> 15) | (crc << 17)) + kMaskDelta
Mask(crc) ==
  LET rhi == (crc[2] % 32768) * 2 + (crc[1] \div 32768)
      rlo == (crc[1] % 32768) * 2 + (crc[2] \div 32768)
      lo == rlo + kMaskDeltaLo
      hi == rhi + kMaskDeltaHi + (lo \div 65536)
  IN <<hi % 65536, lo % 65536>>

\* crc32c::Unmask: rot = masked - kMaskDelta; (rot >> 17) | (rot << 15)
Unmask(masked) ==
  LET lo == masked[2] - kMaskDeltaLo
      borrow == IF lo < 0 THEN 1 ELSE 0
      rlo == lo + borrow * 65536
      rhi == (masked[1] - kMaskDeltaHi - borrow + 65536) % 65536
  IN <<(rhi % 2) * 32768 + (rlo \div 2), (rlo % 2) * 32768 + (rhi \div 2)>>

\* EncodeFixed32 / DecodeFixed32: little-endian
EncodeFixed32(v) ==
  Bytes(<<v[2] % 256, v[2] \div 256, v[1] % 256, v[1] \div 256>>)

DecodeFixed32(s) ==
  <<ByteAt(s, 2) + 256 * ByteAt(s, 3), ByteAt(s, 0) + 256 * ByteAt(s, 1)>>

(***************************************************************************)
(* WritableFile: dest.contents are the bytes of the file, dest.ops the     *)
(* calls made on it.  The call numbered `fault` (counted per AddRecord)    *)
(* fails and writes nothing; fault = 0 lets every call succeed.            *)
(***************************************************************************)
FileAppend(d, data, fails) ==
  [contents |-> IF fails THEN d.contents ELSE Concat(d.contents, data),
   ops |-> Append(d.ops, [op |-> "Append", n |-> Size(data), ok |-> ~fails])]

FileFlush(d, fails) ==
  [d EXCEPT !.ops = Append(d.ops, [op |-> "Flush", n |-> 0, ok |-> ~fails])]

(***************************************************************************)
(* log::Writer.  A writer value w holds dest (the file), block_offset_,    *)
(* calls (file calls made by the running AddRecord), s (the last Status),  *)
(* records (the number of AddRecord calls) and emitted, the record of the  *)
(* EmitPhysicalRecord calls made so far.                                   *)
(***************************************************************************)
\* Writer::Writer(dest) and Writer::Writer(dest, dest_length)
NewWriter(d, dest_length) ==
  [dest |-> d, block_offset_ |-> dest_length % kBlockSize,
   calls |-> 0, s |-> TRUE, records |-> 0, emitted |-> <<>>]

\* variant: the length written high byte first
FormatHeaderBigEndian(t, payload, length) ==
  Concat(EncodeFixed32(Mask(Extend(Value(Rep(t, 1)), payload))),
         Bytes(<<length \div 256, length % 256, t>>))

\* buf[4], buf[5], buf[6] and the masked crc in buf[0..3]
FormatHeader(t, payload, length) ==
  Concat(EncodeFixed32(Mask(Extend(Value(Rep(t, 1)), payload))),
         Bytes(<<length % 256, length \div 256, t>>))

\* variant: Flush only after a Full or a Last fragment
EmitPhysicalRecordFlushAtEnd(w, t, payload, length, fault) ==
  LET f1 == (w.calls + 1 = fault)
      d1 == FileAppend(w.dest, FormatHeader(t, payload, length), f1)
      f2 == (w.calls + 2 = fault)
      d2 == IF f1 THEN d1 ELSE FileAppend(d1, payload, f2)
      f3 == (w.calls + 3 = fault)
      d3 == IF f1 \/ f2 \/ t \in {kFirstType, kMiddleType} THEN d2 ELSE FileFlush(d2, f3)
  IN [w EXCEPT !.dest = d3,
               !.calls = w.calls + (IF f1 THEN 1 ELSE IF f2 THEN 2 ELSE 3),
               !.s = ~(f1 \/ f2 \/ f3),
               !.block_offset_ = w.block_offset_ + kHeaderSize + length,
               !.emitted = Append(w.emitted,
                  [call |-> w.records,
                   type |-> t, length |-> length, payload |-> payload,
                   block_offset |-> w.block_offset_,
                   file_offset |-> Size(w.dest.contents),
                   ok |-> ~(f1 \/ f2 \/ f3)])]

EmitPhysicalRecord(w, t, payload, length, fault) ==
  LET f1 == (w.calls + 1 = fault)
      d1 == FileAppend(w.dest, FormatHeader(t, payload, length), f1)
      f2 == (w.calls + 2 = fault)
      d2 == IF f1 THEN d1 ELSE FileAppend(d1, payload, f2)
      f3 == (w.calls + 3 = fault)
      d3 == IF f1 \/ f2 THEN d2 ELSE FileFlush(d2, f3)
  IN [w EXCEPT !.dest = d3,
               !.calls = w.calls + (IF f1 THEN 1 ELSE IF f2 THEN 2 ELSE 3),
               !.s = ~(f1 \/ f2 \/ f3),
               !.block_offset_ = w.block_offset_ + kHeaderSize + length,
               !.emitted = Append(w.emitted,
                  [call |-> w.records,
                   type |-> t, length |-> length, payload |-> payload,
                   block_offset |-> w.block_offset_,
                   file_offset |-> Size(w.dest.contents),
                   ok |-> ~(f1 \/ f2 \/ f3)])]

\* variant: the larger of the two
FragmentLengthMax(left, avail) == IF left < avail THEN avail ELSE left

\* fragment_length = (left < avail) ? left : avail
FragmentLength(left, avail) == IF left < avail THEN left ELSE avail

\* variant: begin tested before begin && end
FragmentTypeBeginFirst(begin, end) ==
  IF begin THEN kFirstType
  ELSE IF end THEN kLastType
  ELSE kMiddleType

\* the type of a fragment from begin and end
FragmentType(begin, end) ==
  IF begin /\ end THEN kFullType
  ELSE IF begin THEN kFirstType
  ELSE IF end THEN kLastType
  ELSE kMiddleType

\* variant: a trailer is filled also when a header would just fit
FillTrailerAlsoHeader(w, leftover, fault) ==
  IF leftover <= kHeaderSize
  THEN IF leftover > 0
       THEN [w EXCEPT !.dest = FileAppend(w.dest, Rep(0, leftover),
                                          w.calls + 1 = fault),
                      !.calls = w.calls + 1,
                      !.block_offset_ = 0]
       ELSE [w EXCEPT !.block_offset_ = 0]
  ELSE w

\* the trailer of a block: leftover zero bytes when no header fits
FillTrailer(w, leftover, fault) ==
  IF leftover < kHeaderSize
  THEN IF leftover > 0
       THEN [w EXCEPT !.dest = FileAppend(w.dest, Rep(0, leftover),
                                          w.calls + 1 = fault),
                      !.calls = w.calls + 1,
                      !.block_offset_ = 0]
       ELSE [w EXCEPT !.block_offset_ = 0]
  ELSE w

\* variant: the loop of AddRecord goes on after a failed fragment
RECURSIVE AddRecordLoop(_, _, _, _, _)
AddRecordLoopIgnoresStatus(w, slice, ptr, begin, fault) ==
  LET left == Size(slice) - ptr
      leftover == kBlockSize - w.block_offset_
      w1 == FillTrailer(w, leftover, fault)
      avail == kBlockSize - w1.block_offset_ - kHeaderSize
      fragment_length == FragmentLength(left, avail)
      end == (left = fragment_length)
      w2 == EmitPhysicalRecord(w1, FragmentType(begin, end),
                               SubBytes(slice, ptr, fragment_length),
                               fragment_length, fault)
  IN IF left - fragment_length > 0
     THEN AddRecordLoop(w2, slice, ptr + fragment_length, FALSE, fault)
     ELSE w2

\* the do-while loop of Writer::AddRecord; ptr counts the bytes consumed
AddRecordLoop(w, slice, ptr, begin, fault) ==
  LET left == Size(slice) - ptr
      leftover == kBlockSize - w.block_offset_
      w1 == FillTrailer(w, leftover, fault)
      avail == kBlockSize - w1.block_offset_ - kHeaderSize
      fragment_length == FragmentLength(left, avail)
      end == (left = fragment_length)
      w2 == EmitPhysicalRecord(w1, FragmentType(begin, end),
                               SubBytes(slice, ptr, fragment_length),
                               fragment_length, fault)
  IN IF w2.s /\ left - fragment_length > 0
     THEN AddRecordLoop(w2, slice, ptr + fragment_length, FALSE, fault)
     ELSE w2

\* variant: a while loop in place of the do-while loop
WriterAddRecordWhile(w, slice, fault) ==
  IF Size(slice) = 0
  THEN [w EXCEPT !.calls = 0, !.s = TRUE, !.records = w.records + 1]
  ELSE AddRecordLoop([w EXCEPT !.calls = 0, !.s = TRUE, !.records = w.records + 1],
                     slice, 0, TRUE, fault)

\* Writer::AddRecord(slice): the writer after the call, w.s its Status
WriterAddRecord(w, slice, fault) ==
  AddRecordLoop([w EXCEPT !.calls = 0, !.s = TRUE, !.records = w.records + 1],
                slice, 0, TRUE, fault)

(***************************************************************************)
(* SequentialFile: contents, the read position, the number of calls made   *)
(* and fail_at, the number of the call that fails (0: none does).  A       *)
(* failing Read leaves the result empty; Skip stops at the end of file.    *)
(***************************************************************************)
NewSequentialFile(contents, fail_at) ==
  [contents |-> contents, pos |-> 0, calls |-> 0, fail_at |-> fail_at]

FileRead(f, n) ==
  LET fails == (f.calls + 1 = f.fail_at)
      data == IF fails THEN <<>> ELSE SubBytes(f.contents, f.pos, n)
  IN [file |-> [f EXCEPT !.calls = f.calls + 1, !.pos = f.pos + Size(data)],
      data |-> data, ok |-> ~fails]

FileSkip(f, n) ==
  LET fails == (f.calls + 1 = f.fail_at)
      size == Size(f.contents)
      to == IF f.pos + n > size THEN size ELSE f.pos + n
  IN [file |-> [f EXCEPT !.calls = f.calls + 1,
                         !.pos = IF fails THEN f.pos ELSE to],
      ok |-> ~fails]

(***************************************************************************)
(* log::Reader.  reporter_ is the sequence of the Reporter::Corruption     *)
(* calls made: the bytes and the reason passed, and `at`, the value of     *)
(* end_of_buffer_offset_ - buffer_.size() - bytes as an integer (negative  *)
(* where the unsigned 64-bit subtraction of the program wraps around).     *)
(***************************************************************************)
NewReader(file, checksum, initial_offset) ==
  [file_ |-> file,
   reporter_ |-> <<>>,
   checksum_ |-> checksum,
   buffer_ |-> <<>>,
   eof_ |-> FALSE,
   last_record_offset_ |-> 0,
   end_of_buffer_offset_ |-> 0,
   initial_offset_ |-> initial_offset,
   resyncing_ |-> initial_offset > 0]

\* x >= y for the uint64_t value of the integer x (x > -2^63) and 0 <= y < 2^63:
\* a negative x stands for 2^64 + x
U64GreaterEq(x, y) == IF x < 0 THEN TRUE ELSE x >= y

\* variant: every drop reported
ReportDropUnguarded(r, bytes, reason) ==
  LET at == r.end_of_buffer_offset_ - Size(r.buffer_) - bytes
  IN [r EXCEPT !.reporter_ =
        Append(r.reporter_, [bytes |-> bytes, reason |-> reason, at |-> at])]

\* Reader::ReportDrop
ReportDrop(r, bytes, reason) ==
  LET at == r.end_of_buffer_offset_ - Size(r.buffer_) - bytes
  IN IF U64GreaterEq(at, r.initial_offset_)
     THEN [r EXCEPT !.reporter_ =
             Append(r.reporter_, [bytes |-> bytes, reason |-> reason, at |-> at])]
     ELSE r

\* variant: ReportCorruption that reports nothing
ReportCorruptionSilent(r, bytes, reason) == r

\* Reader::ReportCorruption
ReportCorruption(r, bytes, reason) == ReportDrop(r, bytes, reason)

\* Reader::SkipToInitialBlock: [r |-> the reader after it, ok |-> its result]
SkipToInitialBlock(r) ==
  LET offset_in_block == r.initial_offset_ % kBlockSize
      start == r.initial_offset_ - offset_in_block
      block_start_location == IF offset_in_block > kBlockSize - 6
                              THEN start + kBlockSize ELSE start
      r1 == [r EXCEPT !.end_of_buffer_offset_ = block_start_location]
  IN IF block_start_location > 0
     THEN LET sk == FileSkip(r1.file_, block_start_location)
              r2 == [r1 EXCEPT !.file_ = sk.file]
          IN IF ~sk.ok
             THEN [r |-> ReportDrop(r2, block_start_location, "skip error"),
                   ok |-> FALSE]
             ELSE [r |-> r2, ok |-> TRUE]
     ELSE [r |-> r1, ok |-> TRUE]

\* variant: the crc not compared
ChecksumSkipped(checksum, header, length) == TRUE

\* the checksum test of ReadPhysicalRecord on a header and its payload
ChecksumOk(checksum, header, length) ==
  checksum => Unmask(DecodeFixed32(header)) = Value(SubBytes(header, 6, 1 + length))

\* whether a physical record is skipped for starting before initial_offset_
BeforeInitialOffset(r, length) ==
  r.end_of_buffer_offset_ - Size(r.buffer_) - kHeaderSize - length
    < r.initial_offset_

\* variant: only an empty read taken for the end of the file
ShortReadEmpty(buffer) == Size(buffer) = 0

\* a read that returned fewer than kBlockSize bytes: the end of the file
ShortRead(buffer) == Size(buffer) < kBlockSize

\* variant: after a checksum mismatch only the fragment is dropped
RECURSIVE ReadPhysicalRecord(_, _)
ReadPhysicalRecordSkipsFragment(r, result) ==
  IF Size(r.buffer_) < kHeaderSize
  THEN IF ~r.eof_
       THEN LET rd == FileRead(r.file_, kBlockSize)
                r1 == [r EXCEPT !.file_ = rd.file,
                                !.buffer_ = rd.data,
                                !.end_of_buffer_offset_ =
                                     r.end_of_buffer_offset_ + Size(rd.data)]
            IN IF ~rd.ok
               THEN [r |-> [ReportDrop([r1 EXCEPT !.buffer_ = <<>>],
                                       kBlockSize, "read error")
                              EXCEPT !.eof_ = TRUE],
                     type |-> kEof, result |-> result]
               ELSE ReadPhysicalRecord(
                      IF ShortRead(r1.buffer_)
                      THEN [r1 EXCEPT !.eof_ = TRUE] ELSE r1, result)
       ELSE [r |-> [r EXCEPT !.buffer_ = <<>>], type |-> kEof, result |-> result]
  ELSE LET header == r.buffer_
           a == ByteAt(header, 4)
           b == ByteAt(header, 5)
           type == ByteAt(header, 6)
           length == a + b * 256
           drop_size == Size(r.buffer_)
           cleared == [r EXCEPT !.buffer_ = <<>>]
       IN IF kHeaderSize + length > Size(r.buffer_)
          THEN IF ~r.eof_
               THEN [r |-> ReportCorruption(cleared, drop_size, "bad record length"),
                     type |-> kBadRecord, result |-> result]
               ELSE [r |-> cleared, type |-> kEof, result |-> result]
          ELSE IF type = kZeroType /\ length = 0
          THEN [r |-> cleared, type |-> kBadRecord, result |-> result]
          ELSE IF ~ChecksumOk(r.checksum_, header, length)
          THEN [r |-> ReportCorruption(
                        [r EXCEPT !.buffer_ =
                           RemovePrefix(r.buffer_, kHeaderSize + length)],
                        kHeaderSize + length, "checksum mismatch"),
                type |-> kBadRecord, result |-> result]
          ELSE LET r1 == [r EXCEPT !.buffer_ =
                            RemovePrefix(r.buffer_, kHeaderSize + length)]
               IN IF BeforeInitialOffset(r1, length)
                  THEN [r |-> r1, type |-> kBadRecord, result |-> <<>>]
                  ELSE [r |-> r1, type |-> type,
                        result |-> SubBytes(header, kHeaderSize, length)]

\* Reader::ReadPhysicalRecord: [r |-> the reader after it, type |-> the value
\* returned, result |-> *result]
ReadPhysicalRecord(r, result) ==
  IF Size(r.buffer_) < kHeaderSize
  THEN IF ~r.eof_
       THEN LET rd == FileRead(r.file_, kBlockSize)
                r1 == [r EXCEPT !.file_ = rd.file,
                                !.buffer_ = rd.data,
                                !.end_of_buffer_offset_ =
                                     r.end_of_buffer_offset_ + Size(rd.data)]
            IN IF ~rd.ok
               THEN [r |-> [ReportDrop([r1 EXCEPT !.buffer_ = <<>>],
                                       kBlockSize, "read error")
                              EXCEPT !.eof_ = TRUE],
                     type |-> kEof, result |-> result]
               ELSE ReadPhysicalRecord(
                      IF ShortRead(r1.buffer_)
                      THEN [r1 EXCEPT !.eof_ = TRUE] ELSE r1, result)
       ELSE [r |-> [r EXCEPT !.buffer_ = <<>>], type |-> kEof, result |-> result]
  ELSE LET header == r.buffer_
           a == ByteAt(header, 4)
           b == ByteAt(header, 5)
           type == ByteAt(header, 6)
           length == a + b * 256
           drop_size == Size(r.buffer_)
           cleared == [r EXCEPT !.buffer_ = <<>>]
       IN IF kHeaderSize + length > Size(r.buffer_)
          THEN IF ~r.eof_
               THEN [r |-> ReportCorruption(cleared, drop_size, "bad record length"),
                     type |-> kBadRecord, result |-> result]
               ELSE [r |-> cleared, type |-> kEof, result |-> result]
          ELSE IF type = kZeroType /\ length = 0
          THEN [r |-> cleared, type |-> kBadRecord, result |-> result]
          ELSE IF ~ChecksumOk(r.checksum_, header, length)
          THEN [r |-> ReportCorruption(cleared, drop_size, "checksum mismatch"),
                type |-> kBadRecord, result |-> result]
          ELSE LET r1 == [r EXCEPT !.buffer_ =
                            RemovePrefix(r.buffer_, kHeaderSize + length)]
               IN IF BeforeInitialOffset(r1, length)
                  THEN [r |-> r1, type |-> kBadRecord, result |-> <<>>]
                  ELSE [r |-> r1, type |-> type,
                        result |-> SubBytes(header, kHeaderSize, length)]

\* variant: the header of the fragment not accounted for
PhysicalRecordOffsetNoHeader(r, fragment) ==
  r.end_of_buffer_offset_ - Size(r.buffer_) - Size(fragment)

\* physical_record_offset, computed after ReadPhysicalRecord has returned
PhysicalRecordOffset(r, fragment) ==
  r.end_of_buffer_offset_ - Size(r.buffer_) - kHeaderSize - Size(fragment)

\* variant: a Last fragment dispatched while resyncing
ResyncDispatchesLast(resyncing, record_type) ==
  IF resyncing
  THEN IF record_type = kMiddleType THEN [skip |-> TRUE, resyncing |-> TRUE]
       ELSE [skip |-> FALSE, resyncing |-> FALSE]
  ELSE [skip |-> FALSE, resyncing |-> FALSE]

\* the resyncing_ test of ReadRecord on a fragment of type record_type:
\* whether the fragment is skipped, and resyncing_ afterwards
Resync(resyncing, record_type) ==
  IF resyncing
  THEN IF record_type = kMiddleType THEN [skip |-> TRUE, resyncing |-> TRUE]
       ELSE IF record_type = kLastType THEN [skip |-> TRUE, resyncing |-> FALSE]
       ELSE [skip |-> FALSE, resyncing |-> FALSE]
  ELSE [skip |-> FALSE, resyncing |-> FALSE]

\* variant: the partial record kept after a bad record
RECURSIVE ReadRecordLoop(_, _, _, _, _, _)
ReadRecordLoopKeepsPartial(r, fragment, in_fragmented_record, scratch, prospective_record_offset, record) ==
  LET p == ReadPhysicalRecord(r, fragment)
      record_type == p.type
      frag == p.result
      physical_record_offset == PhysicalRecordOffset(p.r, frag)
      sync == Resync(p.r.resyncing_, record_type)
      r1 == [p.r EXCEPT !.resyncing_ = sync.resyncing]
  IN IF sync.skip
     THEN ReadRecordLoop(r1, frag, in_fragmented_record, scratch,
                         prospective_record_offset, record)
     ELSE CASE record_type = kFullType ->
            LET r2 == IF in_fragmented_record /\ scratch # <<>>
                      THEN ReportCorruption(r1, Size(scratch),
                                            "partial record without end(1)")
                      ELSE r1
            IN [r |-> [r2 EXCEPT !.last_record_offset_ = physical_record_offset],
                ok |-> TRUE, record |-> frag]
          [] record_type = kFirstType ->
            LET r2 == IF in_fragmented_record /\ scratch # <<>>
                      THEN ReportCorruption(r1, Size(scratch),
                                            "partial record without end(2)")
                      ELSE r1
            IN ReadRecordLoop(r2, frag, TRUE, frag, physical_record_offset, record)
          [] record_type = kMiddleType ->
            IF ~in_fragmented_record
            THEN ReadRecordLoop(
                   ReportCorruption(r1, Size(frag),
                                    "missing start of fragmented record(1)"),
                   frag, in_fragmented_record, scratch,
                   prospective_record_offset, record)
            ELSE ReadRecordLoop(r1, frag, in_fragmented_record,
                                Concat(scratch, frag),
                                prospective_record_offset, record)
          [] record_type = kLastType ->
            IF ~in_fragmented_record
            THEN ReadRecordLoop(
                   ReportCorruption(r1, Size(frag),
                                    "missing start of fragmented record(2)"),
                   frag, in_fragmented_record, scratch,
                   prospective_record_offset, record)
            ELSE [r |-> [r1 EXCEPT !.last_record_offset_ = prospective_record_offset],
                  ok |-> TRUE, record |-> Concat(scratch, frag)]
          [] record_type = kEof ->
            [r |-> r1, ok |-> FALSE, record |-> record]
          [] record_type = kBadRecord ->
            IF in_fragmented_record
            THEN ReadRecordLoop(
                   ReportCorruption(r1, Size(scratch), "error in middle of record"),
                   frag, in_fragmented_record, scratch, prospective_record_offset, record)
            ELSE ReadRecordLoop(r1, frag, in_fragmented_record, scratch,
                                prospective_record_offset, record)
          [] OTHER ->
            ReadRecordLoop(
              ReportCorruption(r1,
                Size(frag) + (IF in_fragmented_record THEN Size(scratch) ELSE 0),
                "unknown record type"),
              frag, FALSE, <<>>, prospective_record_offset, record)

\* the while loop of Reader::ReadRecord: [r, ok, record]
ReadRecordLoop(r, fragment, in_fragmented_record, scratch, prospective_record_offset, record) ==
  LET p == ReadPhysicalRecord(r, fragment)
      record_type == p.type
      frag == p.result
      physical_record_offset == PhysicalRecordOffset(p.r, frag)
      sync == Resync(p.r.resyncing_, record_type)
      r1 == [p.r EXCEPT !.resyncing_ = sync.resyncing]
  IN IF sync.skip
     THEN ReadRecordLoop(r1, frag, in_fragmented_record, scratch,
                         prospective_record_offset, record)
     ELSE CASE record_type = kFullType ->
            LET r2 == IF in_fragmented_record /\ scratch # <<>>
                      THEN ReportCorruption(r1, Size(scratch),
                                            "partial record without end(1)")
                      ELSE r1
            IN [r |-> [r2 EXCEPT !.last_record_offset_ = physical_record_offset],
                ok |-> TRUE, record |-> frag]
          [] record_type = kFirstType ->
            LET r2 == IF in_fragmented_record /\ scratch # <<>>
                      THEN ReportCorruption(r1, Size(scratch),
                                            "partial record without end(2)")
                      ELSE r1
            IN ReadRecordLoop(r2, frag, TRUE, frag, physical_record_offset, record)
          [] record_type = kMiddleType ->
            IF ~in_fragmented_record
            THEN ReadRecordLoop(
                   ReportCorruption(r1, Size(frag),
                                    "missing start of fragmented record(1)"),
                   frag, in_fragmented_record, scratch,
                   prospective_record_offset, record)
            ELSE ReadRecordLoop(r1, frag, in_fragmented_record,
                                Concat(scratch, frag),
                                prospective_record_offset, record)
          [] record_type = kLastType ->
            IF ~in_fragmented_record
            THEN ReadRecordLoop(
                   ReportCorruption(r1, Size(frag),
                                    "missing start of fragmented record(2)"),
                   frag, in_fragmented_record, scratch,
                   prospective_record_offset, record)
            ELSE [r |-> [r1 EXCEPT !.last_record_offset_ = prospective_record_offset],
                  ok |-> TRUE, record |-> Concat(scratch, frag)]
          [] record_type = kEof ->
            [r |-> r1, ok |-> FALSE, record |-> record]
          [] record_type = kBadRecord ->
            IF in_fragmented_record
            THEN ReadRecordLoop(
                   ReportCorruption(r1, Size(scratch), "error in middle of record"),
                   frag, FALSE, <<>>, prospective_record_offset, record)
            ELSE ReadRecordLoop(r1, frag, in_fragmented_record, scratch,
                                prospective_record_offset, record)
          [] OTHER ->
            ReadRecordLoop(
              ReportCorruption(r1,
                Size(frag) + (IF in_fragmented_record THEN Size(scratch) ELSE 0),
                "unknown record type"),
              frag, FALSE, <<>>, prospective_record_offset, record)

\* Reader::ReadRecord(record, scratch): [r |-> the reader after the call,
\* ok |-> the value returned, record |-> *record]; record is *record before
ReaderReadRecord(r, record) ==
  LET sk == IF r.last_record_offset_ < r.initial_offset_
            THEN SkipToInitialBlock(r)
            ELSE [r |-> r, ok |-> TRUE]
  IN IF ~sk.ok
     THEN [r |-> sk.r, ok |-> FALSE, record |-> record]
     ELSE ReadRecordLoop(sk.r, <<>>, FALSE, <<>>, 0, <<>>)

(***************************************************************************)
(* The table reader (Table, table/format.cc).  Table files are small: the  *)
(* byte strings of this part are plain sequences of bytes, turned into     *)
(* runs (Bytes) and back (Flat) where a checksum or a fixed32 is computed. *)
(***************************************************************************)
\* the bytes of a run-length encoded byte string
RECURSIVE Flat(_)
Flat(s) == IF s = <<>> THEN <<>> ELSE [i \in 1..Head(s).n |-> Head(s).b] \o Flat(Tail(s))

\* the first k bytes of s; s without its first k bytes; n bytes of s from
\* position `from` (0-based), as far as s reaches
Take(s, k) == IF k <= 0 THEN <<>> ELSE IF k >= Len(s) THEN s ELSE SubSeq(s, 1, k)
Skip(s, k) == IF k <= 0 THEN s ELSE IF k >= Len(s) THEN <<>> ELSE SubSeq(s, k + 1, Len(s))
Range(s, from, n) == Take(Skip(s, from), n)

\* n bytes b
Fill(b, n) == [i \in 1..n |-> b]

\* DecodeFixed32(p + at) and the bytes of EncodeFixed32
Fixed32At(s, at) == DecodeFixed32(Bytes(Range(s, at, 4)))
Fixed32(v) == Flat(EncodeFixed32(v))

\* Status
OK == [code |-> "OK", msg |-> ""]
Corruption(msg) == [code |-> "Corruption", msg |-> msg]
IOError(msg) == [code |-> "IOError", msg |-> msg]

\* a decoded value too large for any file of the model
Saturated == 2 ^ 30

\* PutVarint64: 7 bits per byte, low-order group first, the top bit set on
\* every byte but the last
RECURSIVE Varint(_)
Varint(v) == IF v < 128 THEN <<v>> ELSE <<128 + (v % 128)>> \o Varint(v \div 128)

PutVarint64(v) == Varint(v)

\* (group << shift), kept below Saturated
ShiftGroup(group, shift) ==
  IF group = 0 THEN 0 ELSE IF shift >= 28 THEN Saturated ELSE group * 2 ^ shift

AddGroup(result, group, shift) ==
  LET sum == result + ShiftGroup(group, shift)
  IN IF sum > Saturated THEN Saturated ELSE sum

\* GetVarint64Ptr, the groups read so far being `result`: fails on an input
\* that ends inside the number and on one longer than ten bytes
RECURSIVE GetVarint(_, _, _, _)
GetVarint(input, shift, result, max_shift) ==
  IF shift > max_shift \/ input = <<>>
  THEN [ok |-> FALSE, value |-> 0, rest |-> input]
  ELSE LET byte == Head(input)
           rest == Tail(input)
       IN IF byte >= 128
          THEN GetVarint(rest, shift + 7, AddGroup(result, byte % 128, shift), max_shift)
          ELSE [ok |-> TRUE, value |-> AddGroup(result, byte, shift), rest |-> rest]

GetVarint64(input) == GetVarint(input, 0, 0, 63)
GetVarint32(input) == GetVarint(input, 0, 0, 28)

\* BlockHandle
kMaxEncodedLength == 10 + 10

BlockHandle(offset, size) == [offset_ |-> offset, size_ |-> size]

\* BlockHandle::EncodeTo
HandleEncodeTo(dst, h) == dst \o PutVarint64(h.offset_) \o PutVarint64(h.size_)

\* BlockHandle::DecodeFrom(input): the status, the handle and what is left of
\* *input
HandleDecodeFrom(input) ==
  LET Decoded(o, z) ==
        IF o.ok /\ z.ok
        THEN [s |-> OK, handle |-> BlockHandle(o.value, z.value), rest |-> z.rest]
        ELSE [s |-> Corruption("bad block handle"),
              handle |-> BlockHandle(IF o.ok THEN o.value ELSE 0, 0),
              rest |-> IF o.ok THEN z.rest ELSE o.rest]
      HandleSize(o) == Decoded(o, GetVarint64(o.rest))
  IN HandleSize(GetVarint64(input))

\* Footer
kEncodedLength == 2 * kMaxEncodedLength + 8

\* kTableMagicNumber = 0xdb4775248b80fb57, as two 32-bit words
kTableMagicNumberLo == <<35712, 64343>>
kTableMagicNumberHi == <<56135, 29988>>

\* std::string::resize(n) of a string no longer than n
Resize(s, n) == IF Len(s) >= n THEN Take(s, n) ELSE s \o Fill(0, n - Len(s))

\* variant: Footer::EncodeTo that pads the handles to kEncodedLength
FooterEncodeToWide(dst, metaindex_handle, index_handle) ==
  LET handles == HandleEncodeTo(HandleEncodeTo(dst, metaindex_handle), index_handle)
      padded == Resize(handles, kEncodedLength)
  IN padded \o Fixed32(kTableMagicNumberLo) \o Fixed32(kTableMagicNumberHi)

\* Footer::EncodeTo
FooterEncodeTo(dst, metaindex_handle, index_handle) ==
  LET handles == HandleEncodeTo(HandleEncodeTo(dst, metaindex_handle), index_handle)
      padded == Resize(handles, 2 * kMaxEncodedLength)
  IN padded \o Fixed32(kTableMagicNumberLo) \o Fixed32(kTableMagicNumberHi)

\* variant: Footer::DecodeFrom without the test of the magic number
FooterDecodeFromNoMagic(input, space) ==
  LET Decoded(m, i) ==
        IF m.s # OK THEN [s |-> m.s]
        ELSE IF i.s # OK THEN [s |-> i.s]
        ELSE [s |-> OK, metaindex_handle |-> m.handle, index_handle |-> i.handle]
      Index(m) == Decoded(m, HandleDecodeFrom(m.rest))
  IN Index(HandleDecodeFrom(input))

\* Footer::DecodeFrom(input).  The magic is read at input->data() + 40
\* whatever the size of *input: space is the memory *input points into (the
\* caller's 48-byte buffer), of which *input is the first Len(input) bytes.
FooterDecodeFrom(input, space) ==
  LET Decoded(m, i) ==
        IF m.s # OK THEN [s |-> m.s]
        ELSE IF i.s # OK THEN [s |-> i.s]
        ELSE [s |-> OK, metaindex_handle |-> m.handle, index_handle |-> i.handle]
      Index(m) == Decoded(m, HandleDecodeFrom(m.rest))
      Magic(magic_lo, magic_hi) ==
        IF magic_lo # kTableMagicNumberLo \/ magic_hi # kTableMagicNumberHi
        THEN [s |-> Corruption("not an sstable (bad magic number)")]
        ELSE Index(HandleDecodeFrom(input))
  IN Magic(Fixed32At(space, kEncodedLength - 8), Fixed32At(space, kEncodedLength - 4))

\* RandomAccessFile: contents, whether Read hands out pointers into a mapping
\* of the file (mmap) or fills the caller's buffer, the offset of a byte that
\* cannot be read (-1: none) and the Read calls made
NewRandomAccessFile(contents, mmap, bad) ==
  [contents |-> contents, mmap |-> mmap, bad |-> bad, reads |-> <<>>]

\* RandomAccessFile::Read(offset, n, &result, scratch): a Read past the end
\* of the file returns the bytes there are
FileReadAt(f, offset, n) ==
  IF offset <= f.bad /\ f.bad < offset + n
  THEN [f |-> [f EXCEPT !.reads = Append(@, [offset |-> offset, n |-> n])],
        s |-> IOError("read"), data |-> <<>>]
  ELSE [f |-> [f EXCEPT !.reads = Append(@, [offset |-> offset, n |-> n])],
        s |-> OK, data |-> Range(f.contents, offset, n)]

kBlockTrailerSize == 5
kNoCompression == 0
kSnappyCompression == 1

NoContents == [data |-> <<>>, cachable |-> FALSE, heap_allocated |-> FALSE]

\* the crc32c test of ReadBlock on the n + 5 bytes read
BlockChecksumOk(data, n) ==
  Unmask(Fixed32At(data, n + 1)) = Value(Bytes(Take(data, n + 1)))

\* variant: ReadBlock that takes a block of any type for an uncompressed one
ReadBlockAnyType(file, verify_checksums, handle) ==
  LET Contents(n, rd) ==
        IF rd.s # OK THEN [f |-> rd.f, s |-> rd.s, result |-> NoContents]
        ELSE IF Len(rd.data) # n + kBlockTrailerSize
        THEN [f |-> rd.f, s |-> Corruption("truncated block read"), result |-> NoContents]
        ELSE IF verify_checksums /\ ~BlockChecksumOk(rd.data, n)
        THEN [f |-> rd.f, s |-> Corruption("block checksum mismatch"), result |-> NoContents]
        ELSE [f |-> rd.f, s |-> OK,
              result |-> [data |-> Take(rd.data, n),
                          cachable |-> ~file.mmap, heap_allocated |-> ~file.mmap]]
  IN Contents(handle.size_, FileReadAt(file, handle.offset_, handle.size_ + kBlockTrailerSize))

\* variant: ReadBlock that never verifies the checksum
ReadBlockUnverified(file, verify_checksums, handle) ==
  LET Contents(n, rd) ==
        IF rd.s # OK THEN [f |-> rd.f, s |-> rd.s, result |-> NoContents]
        ELSE IF Len(rd.data) # n + kBlockTrailerSize
        THEN [f |-> rd.f, s |-> Corruption("truncated block read"), result |-> NoContents]
        ELSE IF rd.data[n + 1] = kNoCompression
        THEN [f |-> rd.f, s |-> OK,
              result |-> [data |-> Take(rd.data, n),
                          cachable |-> ~file.mmap, heap_allocated |-> ~file.mmap]]
        ELSE IF rd.data[n + 1] = kSnappyCompression
        THEN [f |-> rd.f, s |-> Corruption("corrupted compressed block contents"),
              result |-> NoContents]
        ELSE [f |-> rd.f, s |-> Corruption("bad block type"), result |-> NoContents]
  IN Contents(handle.size_, FileReadAt(file, handle.offset_, handle.size_ + kBlockTrailerSize))

\* ReadBlock(file, options, handle, result): the file after the read, the
\* status and *result.  Snappy is not compiled in: a block marked as
\* compressed cannot be uncompressed.
ReadBlock(file, verify_checksums, handle) ==
  LET Contents(n, rd) ==
        IF rd.s # OK THEN [f |-> rd.f, s |-> rd.s, result |-> NoContents]
        ELSE IF Len(rd.data) # n + kBlockTrailerSize
        THEN [f |-> rd.f, s |-> Corruption("truncated block read"), result |-> NoContents]
        ELSE IF verify_checksums /\ ~BlockChecksumOk(rd.data, n)
        THEN [f |-> rd.f, s |-> Corruption("block checksum mismatch"), result |-> NoContents]
        ELSE IF rd.data[n + 1] = kNoCompression
        THEN [f |-> rd.f, s |-> OK,
              result |-> [data |-> Take(rd.data, n),
                          cachable |-> ~file.mmap, heap_allocated |-> ~file.mmap]]
        ELSE IF rd.data[n + 1] = kSnappyCompression
        THEN [f |-> rd.f, s |-> Corruption("corrupted compressed block contents"),
              result |-> NoContents]
        ELSE [f |-> rd.f, s |-> Corruption("bad block type"), result |-> NoContents]
  IN Contents(handle.size_, FileReadAt(file, handle.offset_, handle.size_ + kBlockTrailerSize))

\* BytewiseComparator()->Compare(a, b): -1, 0 or 1
RECURSIVE Compare(_, _)
Compare(a, b) ==
  IF a = <<>> THEN (IF b = <<>> THEN 0 ELSE -1)
  ELSE IF b = <<>> THEN 1
  ELSE IF Head(a) < Head(b) THEN -1
  ELSE IF Head(a) > Head(b) THEN 1
  ELSE Compare(Tail(a), Tail(b))

\* a 32-bit value as a number, kept below Saturated
Word(v) == IF v[1] >= 16384 THEN Saturated ELSE v[1] * 65536 + v[2]

\* Block::Block(contents): size_ = 0 marks a block without a usable restart
\* array
NewBlock(contents) ==
  LET Made(size, num_restarts) ==
        IF size < 4 \/ num_restarts > (size - 4) \div 4
        THEN [data_ |-> contents.data, size_ |-> 0, restart_offset_ |-> 0,
              num_restarts |-> 0, owned_ |-> contents.heap_allocated]
        ELSE [data_ |-> contents.data, size_ |-> size,
              restart_offset_ |-> size - (1 + num_restarts) * 4,
              num_restarts |-> num_restarts, owned_ |-> contents.heap_allocated]
      NumRestarts(size) ==
        Made(size, IF size < 4 THEN 0 ELSE Word(Fixed32At(contents.data, size - 4)))
  IN NumRestarts(Len(contents.data))

\* Block::size()
BlockSize(block) == block.size_

NotValid(s) == [valid |-> FALSE, key |-> <<>>, value |-> <<>>, status |-> s]

\* Block::Iter::Seek(target) from the entry at offset p, last_key being the
\* key of the entry before it: the entries are decoded one after the other
\* (shared, non_shared, value_length, key_delta, value) up to the first one
\* whose key is >= target
RECURSIVE SeekFrom(_, _, _, _)
SeekFrom(block, p, last_key, target) ==
  LET AtEntry(rest, non_shared, value_length, key) ==
        IF Compare(key, target) >= 0
        THEN [valid |-> TRUE, key |-> key,
              value |-> Range(rest, non_shared, value_length), status |-> OK]
        ELSE SeekFrom(block,
               block.restart_offset_ - Len(rest) + non_shared + value_length,
               key, target)
      Decoded(region, shared, non_shared, value_length) ==
        IF \/ Len(region) < 3
           \/ ~shared.ok \/ ~non_shared.ok \/ ~value_length.ok
           \/ Len(value_length.rest) < non_shared.value + value_length.value
           \/ Len(last_key) < shared.value
        THEN NotValid(Corruption("bad entry in block"))
        ELSE AtEntry(value_length.rest, non_shared.value, value_length.value,
                     Take(last_key, shared.value)
                       \o Take(value_length.rest, non_shared.value))
      ValueLength(region, shared, non_shared) ==
        Decoded(region, shared, non_shared, GetVarint32(non_shared.rest))
      NonShared(region, shared) == ValueLength(region, shared, GetVarint32(shared.rest))
      Shared(region) == NonShared(region, GetVarint32(region))
  IN IF p >= block.restart_offset_ THEN NotValid(OK)
     ELSE Shared(Range(block.data_, p, block.restart_offset_ - p))

\* Block::NewIterator(comparator) followed by Seek(target): Valid(), key(),
\* value() and status() of the iterator
BlockSeek(block, target) ==
  IF block.size_ < 4 THEN NotValid(Corruption("bad block contents"))
  ELSE IF block.num_restarts = 0 THEN NotValid(OK)
  ELSE SeekFrom(block, 0, <<>>, target)

\* FilterPolicy: a one-byte bitmap, one bit per residue of the key's byte sum
kFilterBits == 8

RECURSIVE ByteSum(_)
ByteSum(key) == IF key = <<>> THEN 0 ELSE Head(key) + ByteSum(Tail(key))

KeyBit(key) == 2 ^ (ByteSum(key) % kFilterBits)

\* FilterPolicy::Name()
PolicyName == <<109>>

\* FilterPolicy::CreateFilter(keys)
RECURSIVE FilterBitmap(_)
FilterBitmap(bits) ==
  IF bits = {} THEN 0
  ELSE LET b == CHOOSE x \in bits : TRUE IN b + FilterBitmap(bits \ {b})

CreateFilter(keys) == <<FilterBitmap({KeyBit(keys[i]) : i \in 1..Len(keys)})>>

\* FilterPolicy::KeyMayMatch(key, filter)
PolicyKeyMayMatch(key, filter) ==
  /\ filter # <<>>
  /\ (filter[1] \div KeyBit(key)) % 2 = 1

kFilterBaseLg == 11

\* FilterBlockBuilder::Finish() for a table whose data blocks all start below
\* 2^kFilterBaseLg: the bitmaps, the offsets offset[0..N], N and the base
FilterBlockContents(keys) ==
  LET bitmap == CreateFilter(keys)
  IN bitmap \o Fixed32(<<0, 0>>) \o Fixed32(<<0, Len(bitmap)>>)
       \o Fixed32(<<0, 1>>) \o <<kFilterBaseLg>>

\* FilterBlockReader::FilterBlockReader(policy, contents)
NewFilterBlockReader(contents) ==
  LET Made(n, num) ==
        IF n < 5 \/ num + 1 > (n - 5) \div 4
        THEN [data_ |-> contents, offset_ |-> 0, num_ |-> 0, base_lg_ |-> 0]
        ELSE [data_ |-> contents, offset_ |-> n - 5 - 4 * (num + 1), num_ |-> num,
              base_lg_ |-> contents[n]]
      Num(n) == Made(n, IF n < 5 THEN 0 ELSE Word(Fixed32At(contents, n - 5)))
  IN Num(Len(contents))

\* FilterBlockReader::KeyMayMatch(block_offset, key)
KeyMayMatch(filter, block_offset, key) ==
  LET Match(start, limit) ==
        IF start <= limit /\ limit <= filter.offset_
        THEN PolicyKeyMayMatch(key, Range(filter.data_, start, limit - start))
        ELSE IF start = limit THEN FALSE ELSE TRUE
      Filter(index) ==
        IF index < filter.num_
        THEN Match(Word(Fixed32At(filter.data_, filter.offset_ + index * 4)),
                   Word(Fixed32At(filter.data_, filter.offset_ + index * 4 + 4)))
        ELSE TRUE
  IN Filter(IF filter.base_lg_ >= 30 THEN 0 ELSE block_offset \div 2 ^ filter.base_lg_)

\* Cache: the entries ever inserted (a handle is the index of an entry; 0 is
\* nullptr), each with its key, its value (a block), whether the cache still
\* holds it, its reference count and whether its deleter has run; ops are the
\* Lookup, Insert and Release calls made
NewCache == [entries |-> <<>>, last_id |-> 0, ops |-> <<>>]

\* Cache::NewId()
CacheNewId(cache) == [cache |-> [cache EXCEPT !.last_id = @ + 1], id |-> cache.last_id + 1]

CacheFind(cache, key) ==
  {h \in 1..Len(cache.entries) : cache.entries[h].in_cache /\ cache.entries[h].key = key}

\* one reference of entry h dropped; the deleter runs with the last one
Unref(cache, h) ==
  [cache EXCEPT !.entries[h].refs = @ - 1,
                !.entries[h].deleted = @ \/ cache.entries[h].refs = 1]

\* Cache::Lookup(key)
CacheLookup(cache, key) ==
  LET Found(c1, h) == [cache |-> [c1 EXCEPT !.entries[h].refs = @ + 1], handle |-> h]
      Logged(c1, found) ==
        IF found = {} THEN [cache |-> c1, handle |-> 0]
        ELSE Found(c1, CHOOSE x \in found : TRUE)
  IN Logged([cache EXCEPT !.ops = Append(@, [op |-> "Lookup", key |-> key])],
            CacheFind(cache, key))

\* Cache::Erase(key) and the eviction of the entry of a key
CacheErase(cache, key) ==
  LET Erased(h) == Unref([cache EXCEPT !.entries[h].in_cache = FALSE], h)
      Found(found) == IF found = {} THEN cache ELSE Erased(CHOOSE x \in found : TRUE)
  IN Found(CacheFind(cache, key))

\* Cache::Insert(key, value, charge, deleter): an entry of the same key is
\* replaced
CacheInsert(cache, key, value, charge) ==
  LET Inserted(c1) ==
        [cache |-> [c1 EXCEPT !.entries =
                      Append(@, [key |-> key, value |-> value, charge |-> charge,
                                 in_cache |-> TRUE, refs |-> 2, deleted |-> FALSE])],
         handle |-> Len(c1.entries) + 1]
  IN Inserted(CacheErase([cache EXCEPT !.ops = Append(@, [op |-> "Insert", key |-> key])],
                         key))

\* Cache::Release(handle)
CacheRelease(cache, h) ==
  Unref([cache EXCEPT !.ops = Append(@, [op |-> "Release", key |-> cache.entries[h].key])], h)

\* Cache::Value(handle)
CacheValue(cache, h) == cache.entries[h].value

\* EncodeFixed64 of a value below Saturated
EncodeFixed64(v) ==
  <<v % 256, (v \div 256) % 256, (v \div 65536) % 256, (v \div 16777216) % 256,
    0, 0, 0, 0>>

\* Options and ReadOptions
Options(paranoid_checks, filter_policy, block_cache) ==
  [paranoid_checks |-> paranoid_checks, filter_policy |-> filter_policy,
   block_cache |-> block_cache]

ReadOptions(verify_checksums, fill_cache) ==
  [verify_checksums |-> verify_checksums, fill_cache |-> fill_cache]

\* what the table code works on besides the Table itself: the file, the block
\* cache, the Block objects made by BlockReader (deletes: how often each was
\* deleted by DeleteBlock) and the iterators returned by BlockReader
NewWorld(file) == [file |-> file, cache |-> NewCache, blocks |-> <<>>, iters |-> <<>>]

NoFilter == [num_ |-> -1]
NoTable == [open |-> FALSE]

\* variant: ReadFilter that makes a filter of whatever ReadBlock left
TableReadFilterAlways(w, rep, filter_handle_value) ==
  LET Fetched(rb) ==
        [w |-> [w EXCEPT !.file = rb.f],
         rep |-> [rep EXCEPT !.filter = NewFilterBlockReader(rb.result.data)]]
      Decoded(d) ==
        IF d.s # OK THEN [w |-> w, rep |-> rep]
        ELSE Fetched(ReadBlock(w.file, rep.options.paranoid_checks, d.handle))
  IN Decoded(HandleDecodeFrom(filter_handle_value))

\* Table::ReadFilter(filter_handle_value)
TableReadFilter(w, rep, filter_handle_value) ==
  LET Fetched(rb) ==
        IF rb.s # OK THEN [w |-> [w EXCEPT !.file = rb.f], rep |-> rep]
        ELSE [w |-> [w EXCEPT !.file = rb.f],
              rep |-> [rep EXCEPT
                         !.filter_data = IF rb.result.heap_allocated
                                         THEN rb.result.data ELSE <<>>,
                         !.filter = NewFilterBlockReader(rb.result.data)]]
      Decoded(d) ==
        IF d.s # OK THEN [w |-> w, rep |-> rep]
        ELSE Fetched(ReadBlock(w.file, rep.options.paranoid_checks, d.handle))
  IN Decoded(HandleDecodeFrom(filter_handle_value))

\* "filter." followed by the name of the policy
FilterKey == <<102, 105, 108, 116, 101, 114, 46>> \o PolicyName

\* Table::ReadMeta(footer)
TableReadMeta(w, rep, footer) ==
  IF ~rep.options.filter_policy THEN [w |-> w, rep |-> rep]
  ELSE LET Sought(w1, iter) ==
             IF iter.valid /\ iter.key = FilterKey
             THEN TableReadFilter(w1, rep, iter.value)
             ELSE [w |-> w1, rep |-> rep]
           Fetched(rb, w1) ==
             IF rb.s # OK THEN [w |-> w1, rep |-> rep]
             ELSE Sought(w1, BlockSeek(NewBlock(rb.result), FilterKey))
           Meta(rb) == Fetched(rb, [w EXCEPT !.file = rb.f])
       IN Meta(ReadBlock(w.file, rep.options.paranoid_checks, footer.metaindex_handle))

\* Table::Open(options, file, size, &table): the status returned and *table.
\* footer_space is not initialised: the bytes of it that the Read does not
\* fill are `stale`.
TableOpen(w, options, size, stale) ==
  IF size < kEncodedLength
  THEN [w |-> w, s |-> Corruption("file is too short to be an sstable"), table |-> NoTable]
  ELSE
  LET Made(s, m) == [w |-> m.w, s |-> s, table |-> m.rep]
      WithId(w2, footer, rb, id) ==
        Made(rb.s,
             TableReadMeta([w2 EXCEPT !.cache = id.cache],
                           [open |-> TRUE, options |-> options, cache_id |-> id.id,
                            filter |-> NoFilter, filter_data |-> <<>>,
                            metaindex_handle |-> footer.metaindex_handle,
                            index_block |-> NewBlock(rb.result)],
                           footer))
      Index(w2, footer, rb) ==
        IF rb.s # OK THEN [w |-> w2, s |-> rb.s, table |-> NoTable]
        ELSE WithId(w2, footer, rb,
                    IF options.block_cache THEN CacheNewId(w2.cache)
                    ELSE [cache |-> w2.cache, id |-> 0])
      IndexRead(w1, footer, rb) == Index([w1 EXCEPT !.file = rb.f], footer, rb)
      Decoded(w1, rd, footer) ==
        IF rd.s # OK THEN [w |-> w1, s |-> rd.s, table |-> NoTable]
        ELSE IF footer.s # OK THEN [w |-> w1, s |-> footer.s, table |-> NoTable]
        ELSE IndexRead(w1, footer,
                       ReadBlock(w1.file, options.paranoid_checks, footer.index_handle))
      Footer(rd) ==
        Decoded([w EXCEPT !.file = rd.f], rd,
                FooterDecodeFrom(rd.data, rd.data \o Skip(stale, Len(rd.data))))
  IN Footer(FileReadAt(w.file, size - kEncodedLength, kEncodedLength))

\* Iterator::RegisterCleanup and the functions registered
DeleteBlock(w, block) == [w EXCEPT !.blocks[block].deletes = @ + 1]
ReleaseBlock(w, handle) == [w EXCEPT !.cache = CacheRelease(@, handle)]

\* the key of a block in the block cache: cache_id || offset
CacheKey(rep, handle) == EncodeFixed64(rep.cache_id) \o EncodeFixed64(handle.offset_)

\* new Block(contents)
AllocBlock(w, contents) ==
  [w EXCEPT !.blocks = Append(@, [block |-> NewBlock(contents), deletes |-> 0])]

\* variant: BlockReader that registers DeleteBlock whether or not the block
\* is held through the cache
MakeIteratorDeleteBlock(w, block, cache_handle, s) ==
  IF block # 0
  THEN [w EXCEPT !.iters = Append(@,
          [block |-> block, status |-> OK, alive |-> TRUE,
           cleanup |-> <<[fn |-> "DeleteBlock", arg |-> block]>>])]
  ELSE [w EXCEPT !.iters = Append(@,
          [block |-> 0, status |-> s, alive |-> TRUE, cleanup |-> <<>>])]

\* the end of BlockReader: the iterator over the block with its cleanup, or
\* an error iterator
MakeIterator(w, block, cache_handle, s) ==
  IF block # 0
  THEN [w EXCEPT !.iters = Append(@,
          [block |-> block, status |-> OK, alive |-> TRUE,
           cleanup |-> IF cache_handle = 0
                       THEN <<[fn |-> "DeleteBlock", arg |-> block]>>
                       ELSE <<[fn |-> "ReleaseBlock", arg |-> cache_handle]>>])]
  ELSE [w EXCEPT !.iters = Append(@,
          [block |-> 0, status |-> s, alive |-> TRUE, cleanup |-> <<>>])]

\* variant: BlockReader that makes the Block before it looks at the status
\* of ReadBlock
BlockReaderMissAllocFirst(w, rep, options, handle) ==
  LET Inserted(w2, block, ins, s) ==
        MakeIterator([w2 EXCEPT !.cache = ins.cache], block, ins.handle, s)
      Made(rb, w2, block) ==
        IF rb.result.cachable /\ options.fill_cache
        THEN Inserted(w2, block,
                      CacheInsert(w2.cache, CacheKey(rep, handle), block,
                                  BlockSize(w2.blocks[block].block)),
                      rb.s)
        ELSE MakeIterator(w2, block, 0, rb.s)
      Alloc(rb, w2) == Made(rb, w2, Len(w2.blocks))
      Fetched(rb) == Alloc(rb, AllocBlock([w EXCEPT !.file = rb.f], rb.result))
  IN Fetched(ReadBlock(w.file, options.verify_checksums, handle))

\* variant: BlockReader that inserts the block whatever options.fill_cache
BlockReaderMissAlwaysFills(w, rep, options, handle) ==
  LET Inserted(w2, block, ins, s) ==
        MakeIterator([w2 EXCEPT !.cache = ins.cache], block, ins.handle, s)
      Made(rb, w2, block) ==
        IF rb.result.cachable
        THEN Inserted(w2, block,
                      CacheInsert(w2.cache, CacheKey(rep, handle), block,
                                  BlockSize(w2.blocks[block].block)),
                      rb.s)
        ELSE MakeIterator(w2, block, 0, rb.s)
      Alloc(rb, w2) == Made(rb, w2, Len(w2.blocks))
      Fetched(rb, w1) ==
        IF rb.s # OK THEN MakeIterator(w1, 0, 0, rb.s)
        ELSE Alloc(rb, AllocBlock(w1, rb.result))
      Miss(rb) == Fetched(rb, [w EXCEPT !.file = rb.f])
  IN Miss(ReadBlock(w.file, options.verify_checksums, handle))

\* BlockReader after a miss in the block cache
BlockReaderMiss(w, rep, options, handle) ==
  LET Inserted(w2, block, ins, s) ==
        MakeIterator([w2 EXCEPT !.cache = ins.cache], block, ins.handle, s)
      Made(rb, w2, block) ==
        IF rb.result.cachable /\ options.fill_cache
        THEN Inserted(w2, block,
                      CacheInsert(w2.cache, CacheKey(rep, handle), block,
                                  BlockSize(w2.blocks[block].block)),
                      rb.s)
        ELSE MakeIterator(w2, block, 0, rb.s)
      Alloc(rb, w2) == Made(rb, w2, Len(w2.blocks))
      Fetched(rb, w1) ==
        IF rb.s # OK THEN MakeIterator(w1, 0, 0, rb.s)
        ELSE Alloc(rb, AllocBlock(w1, rb.result))
      Miss(rb) == Fetched(rb, [w EXCEPT !.file = rb.f])
  IN Miss(ReadBlock(w.file, options.verify_checksums, handle))

\* Table::BlockReader(table, options, index_value): the world with the
\* iterator returned as its last iterator
BlockReader(w, rep, options, index_value) ==
  LET Made(w2, s) == MakeIterator(w2, Len(w2.blocks), 0, s)
      Fetched(rb, w1) ==
        IF rb.s # OK THEN MakeIterator(w1, 0, 0, rb.s)
        ELSE Made(AllocBlock(w1, rb.result), rb.s)
      Uncached(rb) == Fetched(rb, [w EXCEPT !.file = rb.f])
      Looked(d, lk, w1) ==
        IF lk.handle # 0
        THEN MakeIterator(w1, CacheValue(w1.cache, lk.handle), lk.handle, d.s)
        ELSE BlockReaderMiss(w1, rep, options, d.handle)
      Cached(d, lk) == Looked(d, lk, [w EXCEPT !.cache = lk.cache])
      Decoded(d) ==
        IF d.s # OK THEN MakeIterator(w, 0, 0, d.s)
        ELSE IF rep.options.block_cache
        THEN Cached(d, CacheLookup(w.cache, CacheKey(rep, d.handle)))
        ELSE Uncached(ReadBlock(w.file, options.verify_checksums, d.handle))
  IN Decoded(HandleDecodeFrom(index_value))

\* delete iter: the cleanups registered on it run
RECURSIVE RunCleanup(_, _)
RunCleanup(w, cleanup) ==
  IF cleanup = <<>> THEN w
  ELSE RunCleanup(IF Head(cleanup).fn = "DeleteBlock"
                  THEN DeleteBlock(w, Head(cleanup).arg)
                  ELSE ReleaseBlock(w, Head(cleanup).arg),
                  Tail(cleanup))

DeleteIterator(w, i) ==
  RunCleanup([w EXCEPT !.iters[i].alive = FALSE], w.iters[i].cleanup)

\* variant: the block iterator placed on the first entry of the block
IterSeekToFirst(w, i, k) ==
  IF w.iters[i].block = 0 THEN NotValid(w.iters[i].status)
  ELSE BlockSeek(w.blocks[w.iters[i].block].block, <<>>)

\* Seek(k) on the iterator returned by BlockReader
IterSeek(w, i, k) ==
  IF w.iters[i].block = 0 THEN NotValid(w.iters[i].status)
  ELSE BlockSeek(w.blocks[w.iters[i].block].block, k)

\* variant: InternalGet that never lets the filter exclude a key
FilterExcludesNever(filter, handle_value, k) == FALSE

\* variant: InternalGet that takes the answer of the filter the wrong way round
FilterExcludesInverted(filter, handle_value, k) ==
  LET Decoded(d) == d.s = OK /\ KeyMayMatch(filter, d.handle.offset_, k)
  IN filter # NoFilter /\ Decoded(HandleDecodeFrom(handle_value))

\* the test of InternalGet on the filter: there is a filter, the handle
\* decodes and the filter excludes the key
FilterExcludes(filter, handle_value, k) ==
  LET Decoded(d) == d.s = OK /\ ~KeyMayMatch(filter, d.handle.offset_, k)
  IN filter # NoFilter /\ Decoded(HandleDecodeFrom(handle_value))

\* variant: InternalGet that goes on to BlockReader without asking whether
\* the index iterator is valid
TableInternalGetUnguarded(w, rep, options, k) ==
  LET Sought(iiter, w1, i, block_iter) ==
        [w |-> DeleteIterator(w1, i),
         s |-> IF block_iter.status = OK THEN iiter.status ELSE block_iter.status,
         handled |-> IF block_iter.valid
                     THEN <<[key |-> block_iter.key, value |-> block_iter.value]>>
                     ELSE <<>>]
      Last(iiter, w1, i) == Sought(iiter, w1, i, IterSeek(w1, i, k))
      Block(iiter, w1) == Last(iiter, w1, Len(w1.iters))
      Index(iiter) ==
        IF FilterExcludes(rep.filter, iiter.value, k)
        THEN [w |-> w, s |-> iiter.status, handled |-> <<>>]
        ELSE Block(iiter, BlockReader(w, rep, options, iiter.value))
  IN Index(BlockSeek(rep.index_block, k))

\* Table::InternalGet(options, k, arg, handle_result): the status returned
\* and the calls of handle_result made
TableInternalGet(w, rep, options, k) ==
  LET Sought(iiter, w1, i, block_iter) ==
        [w |-> DeleteIterator(w1, i),
         s |-> IF block_iter.status = OK THEN iiter.status ELSE block_iter.status,
         handled |-> IF block_iter.valid
                     THEN <<[key |-> block_iter.key, value |-> block_iter.value]>>
                     ELSE <<>>]
      Last(iiter, w1, i) == Sought(iiter, w1, i, IterSeek(w1, i, k))
      Block(iiter, w1) == Last(iiter, w1, Len(w1.iters))
      Index(iiter) ==
        IF ~iiter.valid
        THEN [w |-> w, s |-> iiter.status, handled |-> <<>>]
        ELSE IF FilterExcludes(rep.filter, iiter.value, k)
        THEN [w |-> w, s |-> iiter.status, handled |-> <<>>]
        ELSE Block(iiter, BlockReader(w, rep, options, iiter.value))
  IN Index(BlockSeek(rep.index_block, k))

\* variant: ApproximateOffsetOf that returns whatever offset the failed
\* decoding left in the handle
TableApproximateOffsetOfUnchecked(rep, key) ==
  LET Sought(index_iter) ==
        IF index_iter.valid THEN HandleDecodeFrom(index_iter.value).handle.offset_
        ELSE rep.metaindex_handle.offset_
  IN Sought(BlockSeek(rep.index_block, key))

\* variant: ApproximateOffsetOf that returns 0 for a key past the last key
TableApproximateOffsetOfPastEndZero(rep, key) ==
  LET Decoded(d) == IF d.s = OK THEN d.handle.offset_ ELSE rep.metaindex_handle.offset_
      Sought(index_iter) ==
        IF index_iter.valid THEN Decoded(HandleDecodeFrom(index_iter.value))
        ELSE 0
  IN Sought(BlockSeek(rep.index_block, key))

\* Table::ApproximateOffsetOf(key)
TableApproximateOffsetOf(rep, key) ==
  LET Decoded(d) == IF d.s = OK THEN d.handle.offset_ ELSE rep.metaindex_handle.offset_
      Sought(index_iter) ==
        IF index_iter.valid THEN Decoded(HandleDecodeFrom(index_iter.value))
        ELSE rep.metaindex_handle.offset_
  IN Sought(BlockSeek(rep.index_block, key))

(***************************************************************************)
(* BlockBuilder, and the table files the reader is run on.                 *)
(***************************************************************************)
\* PutFixed32 of a small number
PutFixed32(n) == Fixed32(<<0, n>>)

\* PutVarint32
PutVarint32(v) == Varint(v)

\* BlockBuilder::BlockBuilder(options)
NewBlockBuilder(block_restart_interval) ==
  [block_restart_interval |-> block_restart_interval, buffer_ |-> <<>>,
   restarts_ |-> <<0>>, counter_ |-> 0, finished_ |-> FALSE, last_key_ |-> <<>>]

\* the length of the common prefix of two keys, from position `shared` on
RECURSIVE SharedPrefix(_, _, _)
SharedPrefix(last_key_piece, key, shared) ==
  IF /\ shared < Len(last_key_piece)
     /\ shared < Len(key)
     /\ last_key_piece[shared + 1] = key[shared + 1]
  THEN SharedPrefix(last_key_piece, key, shared + 1)
  ELSE shared

\* variant: Add that restarts one entry late
BuilderAddLateRestart(b, key, value) ==
  LET restart == ~(b.counter_ <= b.block_restart_interval)
      shared == IF restart THEN 0 ELSE SharedPrefix(b.last_key_, key, 0)
      non_shared == Len(key) - shared
      entry == PutVarint32(shared) \o PutVarint32(non_shared) \o PutVarint32(Len(value))
                 \o Skip(key, shared) \o value
  IN [b EXCEPT !.restarts_ = IF restart THEN Append(@, Len(b.buffer_)) ELSE @,
               !.counter_ = (IF restart THEN 0 ELSE @) + 1,
               !.buffer_ = @ \o entry,
               !.last_key_ = Take(@, shared) \o Skip(key, shared)]

\* variant: Add that shares the prefix with the last key at a restart point too
BuilderAddSharedAtRestart(b, key, value) ==
  LET restart == ~(b.counter_ < b.block_restart_interval)
      shared == SharedPrefix(b.last_key_, key, 0)
      non_shared == Len(key) - shared
      entry == PutVarint32(shared) \o PutVarint32(non_shared) \o PutVarint32(Len(value))
                 \o Skip(key, shared) \o value
  IN [b EXCEPT !.restarts_ = IF restart THEN Append(@, Len(b.buffer_)) ELSE @,
               !.counter_ = (IF restart THEN 0 ELSE @) + 1,
               !.buffer_ = @ \o entry,
               !.last_key_ = Take(@, shared) \o Skip(key, shared)]

\* variant: Add that resizes last_key_ and does not append the key delta
BuilderAddNoAppend(b, key, value) ==
  LET restart == ~(b.counter_ < b.block_restart_interval)
      shared == IF restart THEN 0 ELSE SharedPrefix(b.last_key_, key, 0)
      non_shared == Len(key) - shared
      entry == PutVarint32(shared) \o PutVarint32(non_shared) \o PutVarint32(Len(value))
                 \o Skip(key, shared) \o value
  IN [b EXCEPT !.restarts_ = IF restart THEN Append(@, Len(b.buffer_)) ELSE @,
               !.counter_ = (IF restart THEN 0 ELSE @) + 1,
               !.buffer_ = @ \o entry,
               !.last_key_ = Take(@, shared)]

\* BlockBuilder::Add(key, value)
BuilderAdd(b, key, value) ==
  LET restart == ~(b.counter_ < b.block_restart_interval)
      shared == IF restart THEN 0 ELSE SharedPrefix(b.last_key_, key, 0)
      non_shared == Len(key) - shared
      entry == PutVarint32(shared) \o PutVarint32(non_shared) \o PutVarint32(Len(value))
                 \o Skip(key, shared) \o value
  IN [b EXCEPT !.restarts_ = IF restart THEN Append(@, Len(b.buffer_)) ELSE @,
               !.counter_ = (IF restart THEN 0 ELSE @) + 1,
               !.buffer_ = @ \o entry,
               !.last_key_ = Take(@, shared) \o Skip(key, shared)]

\* the restart array
RECURSIVE PutRestarts(_)
PutRestarts(restarts) ==
  IF restarts = <<>> THEN <<>>
  ELSE PutFixed32(Head(restarts)) \o PutRestarts(Tail(restarts))

\* BlockBuilder::Finish()
BuilderFinish(b) ==
  [b EXCEPT !.buffer_ = @ \o PutRestarts(b.restarts_) \o PutFixed32(Len(b.restarts_)),
            !.finished_ = TRUE]

kBlockRestartInterval == 16

\* the block of a sequence of entries
RECURSIVE AddAll(_, _)
AddAll(b, entries) ==
  IF entries = <<>> THEN b
  ELSE AddAll(BuilderAdd(b, Head(entries).key, Head(entries).value), Tail(entries))

BlockOfEntries(entries) ==
  BuilderFinish(AddAll(NewBlockBuilder(kBlockRestartInterval), entries)).buffer_

\* a block as it is written to the file: the contents, the compression type
\* and the masked crc of both
WithTrailer(contents) ==
  LET typed == contents \o <<kNoCompression>>
  IN typed \o Fixed32(Mask(Value(Bytes(typed))))

Entry(key, value) == [key |-> key, value |-> value]

\* the entries of the data blocks of the table: keys "a", "c" and "e"
DataBlocks ==
  << <<Entry(<<97>>, <<65>>), Entry(<<99>>, <<67>>)>>,
     <<Entry(<<101>>, <<69>>)>> >>

\* the key of the index entry of each data block: a separator no smaller than
\* the keys of the block and smaller than those of the next ("d", "f")
IndexKeys == << <<100>>, <<102>> >>

\* the handles of the blocks of the file, in the order in which
\* TableBuilder::Finish lays them out: data blocks, filter block, metaindex
\* block, index block, footer
DataHandle(i) ==
  IF i = 1 THEN BlockHandle(0, Len(BlockOfEntries(DataBlocks[1])))
  ELSE BlockHandle(Len(BlockOfEntries(DataBlocks[1])) + kBlockTrailerSize,
                   Len(BlockOfEntries(DataBlocks[2])))

EndOfBlock(h) == h.offset_ + h.size_ + kBlockTrailerSize

FilterContents == FilterBlockContents(<< <<97>>, <<99>>, <<101>> >>)
FilterHandle == BlockHandle(EndOfBlock(DataHandle(2)), Len(FilterContents))

MetaindexContents ==
  BlockOfEntries(<<Entry(FilterKey, HandleEncodeTo(<<>>, FilterHandle))>>)
MetaindexHandle == BlockHandle(EndOfBlock(FilterHandle), Len(MetaindexContents))

IndexContents ==
  BlockOfEntries(<<Entry(IndexKeys[1], HandleEncodeTo(<<>>, DataHandle(1))),
                   Entry(IndexKeys[2], HandleEncodeTo(<<>>, DataHandle(2)))>>)
IndexHandle == BlockHandle(EndOfBlock(MetaindexHandle), Len(IndexContents))

FooterOffset == EndOfBlock(IndexHandle)

\* the table file
TableFile ==
  WithTrailer(BlockOfEntries(DataBlocks[1]))
    \o WithTrailer(BlockOfEntries(DataBlocks[2]))
    \o WithTrailer(FilterContents)
    \o WithTrailer(MetaindexContents)
    \o WithTrailer(IndexContents)
    \o FooterEncodeTo(<<>>, MetaindexHandle, IndexHandle)

(***************************************************************************)
(* The system: a writer appends records to an empty log; the file may then *)
(* be damaged; a reader is opened on it at some initial offset and         *)
(* ReadRecord is called repeatedly.                                        *)
(***************************************************************************)
lvars == <<writer, written, damage, reader, results, phase>>
tvars == <<world, table, calls, tfault, threads>>
bvars == <<builder, twin, bcalls, resets>>
fvars == <<footer_, encoded, decoded, original>>
vars == <<writer, written, damage, reader, results, phase, world, table, calls, tfault, threads,
          builder, twin, bcalls, resets, footer_, encoded, decoded, original>>

\* record sizes around the block boundaries
RecordSizes ==
  {0, 1, 100, kBlockSize - 14, kBlockSize - 13,
   kBlockSize - 8, kBlockSize - 7, kBlockSize - 6, kBlockSize,
   100000, 3 * kBlockSize + 1}

\* the k-th record: n bytes, the first half and the second half differing
Payload(k, n) == Concat(Rep(95 + 2 * k, n \div 2), Rep(96 + 2 * k, n - n \div 2))

EmptyFile == [contents |-> <<>>, ops |-> <<>>]

\* the offsets a reader is opened at: the start of each fragment and the byte
\* after it, the edges of a block trailer, the end of the file and beyond
InitialOffsets ==
  {0, kBlockSize - 6, kBlockSize - 5,
   Size(writer.dest.contents), Size(writer.dest.contents) + kBlockSize}
  \cup {writer.emitted[i].file_offset + d :
          i \in 1..Len(writer.emitted), d \in {0, 1}}

\* the table file is there, not yet opened
TableInit ==
  /\ world = NewWorld(NewRandomAccessFile(TableFile, FALSE, -1))
  /\ table = [state |-> "closed"]
  /\ calls = <<>>
  /\ tfault = [kind |-> "none"]
  /\ threads = [t \in {1, 2} |-> [pc |-> "idle"]]

\* a BlockBuilder with the default options
BuilderInit ==
  /\ builder = NewBlockBuilder(kBlockRestartInterval)
  /\ twin = NewBlockBuilder(kBlockRestartInterval)
  /\ bcalls = <<>>
  /\ resets = <<>>

\* BlockHandle(): offset_ and size_ are ~0 until they are set
NoHandle == BlockHandle(0 - 1, 0 - 1)

\* Footer(), no string and no result of DecodeFrom
NewFooter == [metaindex_handle |-> NoHandle, index_handle |-> NoHandle]
NoString == <<0 - 1>>
NoFooter == [s |-> IOError("not decoded")]

\* a Footer whose handles are not set, and nothing encoded
FooterInit ==
  /\ footer_ = NewFooter
  /\ encoded = NoString
  /\ decoded = NoFooter
  /\ original = NoString

Init ==
  /\ writer = NewWriter(EmptyFile, 0)
  /\ written = <<>>
  /\ damage = [kind |-> "none"]
  /\ reader = NewReader(NewSequentialFile(<<>>, 0), FALSE, 0)
  /\ results = <<>>
  /\ phase = "write"
  /\ TableInit
  /\ BuilderInit
  /\ FooterInit

AddRecord(n) ==
  /\ phase = "write"
  /\ damage.kind = "none"
  /\ Len(written) < MaxRecords
  /\ LET slice == Payload(Len(written) + 1, n)
     IN /\ writer' = WriterAddRecord(writer, slice, 0)
        /\ written' = Append(written, slice)
  /\ UNCHANGED <<damage, reader, results, phase>>
  /\ UNCHANGED <<tvars, bvars, fvars>>

\* Reader::Reader(file, reporter, checksum, initial_offset) on the log file
OpenReader(initial_offset, checksum, fail_at) ==
  /\ phase = "write"
  /\ reader' = NewReader(NewSequentialFile(writer.dest.contents, fail_at),
                         checksum, initial_offset)
  /\ phase' = "read"
  /\ UNCHANGED <<writer, written, damage, results>>
  /\ UNCHANGED <<tvars, bvars, fvars>>

\* one call of Reader::ReadRecord by the reader's owner
ReadRecord ==
  /\ phase = "read"
  /\ Len(results) < MaxReads
  /\ LET out == ReaderReadRecord(reader,
                  IF results = <<>> THEN <<>> ELSE results[Len(results)].record)
     IN /\ reader' = out.r
        /\ results' = Append(results,
              [ok |-> out.ok, record |-> out.record,
               offset |-> out.r.last_record_offset_,
               reports |-> Len(out.r.reporter_)])
  /\ UNCHANGED <<writer, written, damage, phase>>
  /\ UNCHANGED <<tvars, bvars, fvars>>

Writing == phase = "write" /\ damage.kind = "none"

Next ==
  \/ Writing /\ \E n \in RecordSizes : AddRecord(n)
  \/ phase = "write" /\ \E o \in InitialOffsets, c \in BOOLEAN : OpenReader(o, c, 0)
  \/ ReadRecord

Spec == Init /\ [][Next]_vars

(***************************************************************************)
(* The same system with a log that is damaged after the writer stopped:    *)
(* the file loses its tail (the writer crashed while appending) or a range *)
(* of its bytes is overwritten with zeros, and a call on the reader's file *)
(* may fail.                                                               *)
(***************************************************************************)
RecordSizesDamaged == {0, 100, kBlockSize - 7, 100000}

\* where the file is cut: at the start of a fragment, inside its header,
\* right after its header, one byte short of its end
TruncationPoints ==
  {p \in UNION {{writer.emitted[i].file_offset + d :
                   d \in {0, 3, kHeaderSize,
                          kHeaderSize + writer.emitted[i].length - 1}} :
                 i \in 1..Len(writer.emitted)} :
     p < Size(writer.dest.contents)}

\* the ranges <<from, length>> overwritten with zeros: bytes 10-20 of
\* block 1, and the crc, the length, the type, the whole header and the
\* first payload bytes of a fragment
ZeroRanges ==
  {z \in {<<kBlockSize + 10, 11>>}
         \cup {<<writer.emitted[i].file_offset + d[1], d[2]>> :
                 i \in 1..Len(writer.emitted),
                 d \in {<<0, 4>>, <<4, 2>>, <<6, 1>>, <<0, 7>>, <<7, 5>>}} :
     z[1] + z[2] <= Size(writer.dest.contents)}

\* the offsets a reader of the damaged log is opened at: the start of the
\* file, a byte inside its first fragment, the second block, and the start
\* of each record
InitialOffsetsDamaged ==
  {0, 10, kBlockSize}
  \cup {writer.emitted[i].file_offset :
          i \in {j \in 1..Len(writer.emitted) :
                   writer.emitted[j].type \in {kFullType, kFirstType}}}

Truncate(p) ==
  /\ phase = "write"
  /\ damage.kind = "none"
  /\ writer' = [writer EXCEPT !.dest.contents = Prefix(@, p)]
  /\ damage' = [kind |-> "truncate", at |-> p]
  /\ UNCHANGED <<written, reader, results, phase>>
  /\ UNCHANGED <<tvars, bvars, fvars>>

ZeroRange(from, n) ==
  /\ phase = "write"
  /\ damage.kind = "none"
  /\ writer' = [writer EXCEPT !.dest.contents =
                   Concat(Concat(Prefix(@, from), Rep(0, n)),
                          RemovePrefix(@, from + n))]
  /\ damage' = [kind |-> "zero", at |-> from, n |-> n]
  /\ UNCHANGED <<written, reader, results, phase>>
  /\ UNCHANGED <<tvars, bvars, fvars>>

NextDamaged ==
  \/ Writing /\ \E n \in RecordSizesDamaged : AddRecord(n)
  \/ Writing /\ \E p \in TruncationPoints : Truncate(p)
  \/ Writing /\ \E z \in ZeroRanges : ZeroRange(z[1], z[2])
  \/ phase = "write" /\ \E o \in InitialOffsetsDamaged, c \in BOOLEAN,
                              f \in 0..MaxFailAt : OpenReader(o, c, f)
  \/ ReadRecord

SpecDamaged == Init /\ [][NextDamaged]_vars

(***************************************************************************)
(* What the claims speak about.                                            *)
(***************************************************************************)
\* the fragments emitted by the c-th AddRecord call, in order
FragmentsOf(c) == SelectSeq(writer.emitted, LAMBDA e : e.call = c)

\* the concatenation of the payloads of a sequence of fragments
RECURSIVE PayloadsOf(_)
PayloadsOf(fs) ==
  IF fs = <<>> THEN <<>> ELSE Concat(Head(fs).payload, PayloadsOf(Tail(fs)))

\* the bytes of the first i fragments of fs
RECURSIVE LengthsOf(_, _)
LengthsOf(fs, i) == IF i = 0 THEN 0 ELSE fs[i].length + LengthsOf(fs, i - 1)

\* the block offset just after fragment e
EndOf(e) == e.block_offset + kHeaderSize + e.length

\* the records returned so far, in order
Returned == SelectSeq(results, LAMBDA x : x.ok)

\* the log was written and read with nothing else happening to it
CleanRead == phase = "read" /\ damage.kind = "none" /\ reader.file_.fail_at = 0

\* C1: after r1..rn were written to an empty file, a reader from offset 0
\* returns exactly r1..rn in order, then false, and reports no corruption
C1_Reassembly ==
  (CleanRead /\ reader.initial_offset_ = 0) =>
     /\ \A i \in 1..Len(results) :
          IF i <= Len(written)
          THEN results[i].ok /\ results[i].record = written[i]
          ELSE ~results[i].ok
     /\ reader.reporter_ = <<>>

C1_Witness ==
  /\ CleanRead /\ reader.initial_offset_ = 0
  /\ Len(written) = 2 /\ Len(results) = 3
  /\ written[1] = <<>> /\ Size(written[2]) > kBlockSize
  /\ results[2].ok /\ ~results[3].ok

\* C3: every fragment lies inside one block, no header starts in the last six
\* bytes of a block, a trailer shorter than a header is filled with zero bytes
\* and 0 <= block_offset_ <= kBlockSize
C3_FragmentInBlock ==
  /\ writer.block_offset_ >= 0 /\ writer.block_offset_ <= kBlockSize
  /\ \A i \in 1..Len(writer.emitted) :
       LET e == writer.emitted[i]
       IN /\ e.block_offset + kHeaderSize + e.length <= kBlockSize
          /\ e.length <= 65535
          /\ e.block_offset >= 0
          /\ e.file_offset % kBlockSize = e.block_offset
          /\ (e.file_offset + kHeaderSize + e.length - 1) \div kBlockSize
               = e.file_offset \div kBlockSize
          /\ i > 1 =>
               LET d == writer.emitted[i - 1]
                   leftover == kBlockSize - EndOf(d)
                   pad == e.file_offset - (d.file_offset + kHeaderSize + d.length)
               IN IF leftover < kHeaderSize
                  THEN /\ pad = leftover
                       /\ e.block_offset = 0
                       /\ SubBytes(writer.dest.contents,
                                   e.file_offset - pad, pad) = Rep(0, pad)
                  ELSE pad = 0 /\ e.block_offset = EndOf(d)

C3_Witness ==
  \E i \in 2..Len(writer.emitted) :
     /\ kBlockSize - EndOf(writer.emitted[i - 1]) \in 1..6
     /\ writer.emitted[i].block_offset = 0
     /\ writer.emitted[i].file_offset = kBlockSize

\* C4: the fragments of a call are one Full, or a First, Middles and a Last;
\* each has length min(left, kBlockSize - block_offset - 7); their payloads
\* concatenated are the record
C4_Fragmentation ==
  \A c \in 1..Len(written) :
     LET fs == FragmentsOf(c)
         n == Len(fs)
     IN /\ n >= 1
        /\ IF n = 1 THEN fs[1].type = kFullType
           ELSE /\ fs[1].type = kFirstType
                /\ fs[n].type = kLastType
                /\ \A i \in 2..(n - 1) : fs[i].type = kMiddleType
        /\ \A i \in 1..n :
             LET left == Size(written[c]) - LengthsOf(fs, i - 1)
                 room == kBlockSize - fs[i].block_offset - kHeaderSize
             IN fs[i].length = IF left < room THEN left ELSE room
        /\ PayloadsOf(fs) = written[c]

C4_Witness ==
  \E c \in 1..Len(written) :
     /\ Len(FragmentsOf(c)) >= 4
     /\ FragmentsOf(c)[1].length = 0

\* C5: an empty slice gives exactly one fragment, Full and of length 0, and
\* block_offset_ ends 7 past the start of that fragment
C5_EmptyRecord ==
  \A c \in 1..Len(written) :
     written[c] = <<>> =>
        LET fs == FragmentsOf(c)
        IN /\ Len(fs) = 1
           /\ fs[1].type = kFullType
           /\ fs[1].length = 0
           /\ c = Len(written) => writer.block_offset_ = fs[1].block_offset + 7

C5_Witness ==
  /\ Len(written) = 2 /\ written[2] = <<>>
  /\ writer.emitted[Len(writer.emitted)].block_offset = 0
  /\ writer.emitted[Len(writer.emitted)].file_offset = kBlockSize
  /\ writer.block_offset_ = 7
\* C2: from any initial offset the reader returns a suffix of the written
\* records, each whole, and reports nothing before the first record it returns
C2_ResyncSuffix ==
  CleanRead =>
     /\ \E k \in 0..Len(written) :
          /\ k + Len(Returned) <= Len(written)
          /\ \A i \in 1..Len(Returned) : Returned[i].record = written[k + i]
          /\ (\E i \in 1..Len(results) : ~results[i].ok)
               => k + Len(Returned) = Len(written)
     /\ \A i \in 1..Len(results) :
          (\A j \in 1..(i - 1) : ~results[j].ok) => results[i].reports = 0

\* the first half of C2 alone: what is returned is a suffix of what was written
C2_SuffixOnly ==
  CleanRead =>
     \E k \in 0..Len(written) :
        /\ k + Len(Returned) <= Len(written)
        /\ \A i \in 1..Len(Returned) : Returned[i].record = written[k + i]
        /\ (\E i \in 1..Len(results) : ~results[i].ok)
             => k + Len(Returned) = Len(written)
\* the block of the file that fragment e starts in, and the one it ends in
BlockOf(e) == e.file_offset \div kBlockSize
LastBlockOf(e) == (e.file_offset + kHeaderSize + e.length - 1) \div kBlockSize

\* a 100-byte record and then a 100,000-byte record were written
Scenario4 ==
  /\ Len(written) = 2
  /\ Size(written[1]) = 100
  /\ Size(written[2]) = 100000

\* a fragment of type t and length n lying in block k
Holds(e, t, n, k) ==
  e.type = t /\ e.length = n /\ BlockOf(e) = k /\ LastBlockOf(e) = k

\* the reader from offset 0 yields both records in order
Scenario4Read ==
  (CleanRead /\ reader.initial_offset_ = 0) =>
     \A i \in 1..Len(results) :
        i <= 2 => results[i].ok /\ results[i].record = written[i]

\* C6 as stated: block 0 holds Full(100) and First(32654), block 1 one
\* Middle(32761), block 2 the Last fragment with the rest of the record
C6_AsStated ==
  Scenario4 =>
     /\ Len(writer.emitted) = 4
     /\ Holds(writer.emitted[1], kFullType, 100, 0)
     /\ Holds(writer.emitted[2], kFirstType, 32654, 0)
     /\ Holds(writer.emitted[3], kMiddleType, 32761, 1)
     /\ Holds(writer.emitted[4], kLastType, 100000 - 32654 - 32761, 2)
     /\ Scenario4Read

\* C6 amended: block 0 holds Full(100) and First(32654), blocks 1 and 2 one
\* Middle(32761) each, block 3 the Last fragment of 1824 bytes; a reader from
\* offset 0 returns both records in order
C6_Layout ==
  Scenario4 =>
     /\ Len(writer.emitted) = 5
     /\ Holds(writer.emitted[1], kFullType, 100, 0)
     /\ Holds(writer.emitted[2], kFirstType, 32654, 0)
     /\ Holds(writer.emitted[3], kMiddleType, 32761, 1)
     /\ Holds(writer.emitted[4], kMiddleType, 32761, 2)
     /\ Holds(writer.emitted[5], kLastType, 1824, 3)
     /\ Scenario4Read

C6_Witness ==
  /\ Scenario4
  /\ CleanRead /\ reader.initial_offset_ = 0
  /\ Len(results) = 3
  /\ results[1].ok /\ results[2].ok /\ ~results[3].ok
  /\ Size(results[2].record) = 100000

\* C8: after a ReadRecord that returned true, LastRecordOffset() is the file
\* offset of the Full or First fragment that began the record returned; a
\* ReadRecord that returned false leaves it as it was
C8_LastRecordOffset ==
  CleanRead =>
     \A i \in 1..Len(results) :
        LET before == IF i = 1 THEN 0 ELSE results[i - 1].offset
        IN IF results[i].ok
           THEN /\ \E j \in 1..Len(writer.emitted) :
                     LET e == writer.emitted[j]
                     IN /\ e.type \in {kFullType, kFirstType}
                        /\ e.file_offset = results[i].offset
                        /\ written[e.call] = results[i].record
                /\ (\E j \in 1..(i - 1) : results[j].ok)
                     => results[i].offset > before
           ELSE results[i].offset = before

C8_Witness ==
  /\ CleanRead
  /\ reader.initial_offset_ > 0
  /\ Len(results) = 2
  /\ results[1].ok /\ ~results[2].ok
  /\ results[1].offset > 0
  /\ results[1].offset % kBlockSize # 0
  /\ Size(results[1].record) > kBlockSize
  /\ results[2].offset = results[1].offset
\* bytes 10-20 of block 1 of the log of Scenario4 were zeroed and a
\* checksumming reader was opened at offset 0
Scenario5 ==
  /\ Scenario4
  /\ damage = [kind |-> "zero", at |-> kBlockSize + 10, n |-> 11]
  /\ phase = "read"
  /\ reader.checksum_
  /\ reader.initial_offset_ = 0
  /\ reader.file_.fail_at = 0

\* C7 as stated: record 1 is returned intact, exactly one corruption is
\* reported for record 2, which is not returned, and later calls return false
C7_AsStated ==
  Scenario5 =>
     \A i \in 1..Len(results) :
        IF i = 1
        THEN results[i].ok /\ results[i].record = written[1] /\ results[i].reports = 0
        ELSE ~results[i].ok /\ results[i].reports = 1
\* C7 amended: record 1 is returned intact; for record 2 four corruptions are
\* reported (the checksum mismatch that drops block 1, the error in the middle
\* of the record read so far, and a missing start for the Middle fragment of
\* block 2 and for the Last fragment of block 3) and it is not returned; every
\* later call returns false
C7_Corruption ==
  Scenario5 =>
     /\ \A i \in 1..Len(results) :
          IF i = 1
          THEN results[i].ok /\ results[i].record = written[1] /\ results[i].reports = 0
          ELSE ~results[i].ok /\ results[i].reports = 4
     /\ Len(results) >= 2 =>
          [i \in 1..4 |-> <<reader.reporter_[i].bytes, reader.reporter_[i].reason>>]
            = << <<32768, "checksum mismatch">>,
                 <<32654, "error in middle of record">>,
                 <<32761, "missing start of fragmented record(1)">>,
                 <<1824, "missing start of fragmented record(2)">> >>

C7_Witness == Scenario5 /\ Len(results) = 3 /\ ~results[3].ok

\* C9: every report made concerns a drop whose first byte, computed as the
\* program computes it in unsigned 64-bit arithmetic, is at or after
\* initial_offset
C9_NoReportBeforeInitialOffset ==
  phase = "read" =>
     \A i \in 1..Len(reader.reporter_) :
        U64GreaterEq(reader.reporter_[i].at, reader.initial_offset_)

C9_Witness ==
  /\ phase = "read"
  /\ reader.initial_offset_ > 0
  /\ damage.kind = "zero" /\ damage.at < reader.initial_offset_
  /\ reader.checksum_
  /\ Len(results) >= 1
  /\ Len(reader.reporter_) >= 1

\* the records whose fragments all lie before the point the file was cut at
CompleteRecords ==
  {c \in 1..Len(written) :
     \A i \in 1..Len(writer.emitted) :
        writer.emitted[i].call = c =>
          writer.emitted[i].file_offset + kHeaderSize + writer.emitted[i].length
            <= damage.at}

\* C10: on a log whose tail was cut, a reader from the start returns every
\* complete record before the tail, then false, and reports no corruption
C10_TailCut ==
  (/\ phase = "read" /\ damage.kind = "truncate"
   /\ reader.initial_offset_ = 0 /\ reader.file_.fail_at = 0) =>
     /\ reader.reporter_ = <<>>
     /\ \A i \in 1..Len(results) :
          IF i <= Cardinality(CompleteRecords)
          THEN results[i].ok /\ results[i].record = written[i]
          ELSE ~results[i].ok

C10_Witness ==
  /\ phase = "read" /\ damage.kind = "truncate"
  /\ reader.initial_offset_ = 0 /\ reader.file_.fail_at = 0
  /\ Len(written) = 2 /\ Size(written[2]) = 100000
  /\ damage.at > 2 * kBlockSize + kHeaderSize
  /\ CompleteRecords = {1}
  /\ Len(results) = 2
  /\ results[1].ok /\ ~results[2].ok


(***************************************************************************)
(* The table reader at work: the table file of TableFile, possibly damaged *)
(* or on a file whose reads fail, is opened with Table::Open; the table is *)
(* then used through InternalGet, ApproximateOffsetOf and the block        *)
(* iterators that a table iterator obtains from BlockReader and deletes,   *)
(* while the block cache may evict entries.                                *)
(***************************************************************************)
\* the keys looked up: "a" (in block 1), "ab" (absent, let through by the
\* filter), "b" (absent, excluded by the filter), "d" (the same, and the
\* index key of block 1), "e" (in block 2), "g" (beyond the last index key)
LookupKeys == { <<97>>, <<97, 98>>, <<98>>, <<100>>, <<101>>, <<103>> }

\* kinds of damage: n bytes from offset `from` overwritten with byte b
Overwrite(what, from, n, b) == [kind |-> what, from |-> from, n |-> n, b |-> b]

\* the offset of the compression type of a block, and of the first byte of
\* the handle that is the value of the last entry of a block of one-byte
\* (index) or FilterKey (metaindex) keys
TypeOffset(h) == h.offset_ + h.size_
LastValueOffset(h, restarts) == h.offset_ + h.size_ - 4 * (restarts + 1) - 2

\* damage that Table::Open meets
OpenDamage ==
  { Overwrite("magic", FooterOffset + kEncodedLength - 8, 1, 0),
    Overwrite("footer handle", FooterOffset, kMaxEncodedLength, 128),
    Overwrite("index type", TypeOffset(IndexHandle), 1, 2),
    Overwrite("index crc", TypeOffset(IndexHandle) + 1, 1, 0),
    Overwrite("metaindex type", TypeOffset(MetaindexHandle), 1, 2),
    Overwrite("filter handle", LastValueOffset(MetaindexHandle, 1), 2, 128),
    Overwrite("filter type", TypeOffset(FilterHandle), 1, 2),
    Overwrite("filter crc", TypeOffset(FilterHandle) + 1, 1, 0) }

\* damage that the calls on an open table meet
DataDamage ==
  { Overwrite("index handle", LastValueOffset(IndexHandle, 1), 2, 128),
    Overwrite("data type", TypeOffset(DataHandle(1)), 1, 2),
    Overwrite("data snappy", TypeOffset(DataHandle(2)), 1, kSnappyCompression),
    Overwrite("data crc", TypeOffset(DataHandle(1)) + 1, 1, 0) }

Closed == table.state = "closed"
Opened == table.state = "open" /\ table.s = OK

\* bytes of the file are overwritten
Damage(d) ==
  /\ Closed
  /\ tfault.kind = "none"
  /\ world' = [world EXCEPT !.file.contents =
                 Take(@, d.from) \o Fill(d.b, d.n) \o Skip(@, d.from + d.n)]
  /\ tfault' = d
  /\ UNCHANGED <<table, calls>>
  /\ UNCHANGED <<lvars, threads, bvars, fvars>>

\* the file loses its last n bytes
CutTail(n) ==
  /\ Closed
  /\ tfault.kind = "none"
  /\ world' = [world EXCEPT !.file.contents = Take(@, Len(@) - n)]
  /\ tfault' = [kind |-> "cut", n |-> n]
  /\ UNCHANGED <<table, calls>>
  /\ UNCHANGED <<lvars, threads, bvars, fvars>>

\* the byte at `offset` of the file cannot be read any more
BadSector(offset) ==
  /\ Closed
  /\ tfault.kind = "none"
  /\ world' = [world EXCEPT !.file.bad = offset]
  /\ tfault' = [kind |-> "bad sector", offset |-> offset]
  /\ UNCHANGED <<table, calls>>
  /\ UNCHANGED <<lvars, threads, bvars, fvars>>

\* the file is one that hands out pointers into a mapping
Mmap ==
  /\ Closed
  /\ tfault.kind = "none"
  /\ world' = [world EXCEPT !.file.mmap = TRUE]
  /\ tfault' = [kind |-> "mmap"]
  /\ UNCHANGED <<table, calls>>
  /\ UNCHANGED <<lvars, threads, bvars, fvars>>

\* Table::Open(options, file, size, &table); read_options are those of the
\* calls made on the table afterwards
Open(options, size, stale, read_options) ==
  /\ Closed
  /\ \E o \in {TableOpen(world, options, size, stale)} :
        /\ world' = o.w
        /\ table' = [state |-> "open", s |-> o.s, rep |-> o.table,
                     options |-> options, size |-> size,
                     read_options |-> read_options]
  /\ UNCHANGED <<calls, tfault>>
  /\ UNCHANGED <<lvars, threads, bvars, fvars>>

\* what a call changed outside the table: Read calls on the file, calls on
\* the cache, Block objects made
Effects(w, w1) ==
  [reads |-> Len(w1.file.reads) - Len(w.file.reads),
   cache_ops |-> SubSeq(w1.cache.ops, Len(w.cache.ops) + 1, Len(w1.cache.ops)),
   blocks |-> Len(w1.blocks) - Len(w.blocks)]

\* Table::InternalGet(read_options, k, arg, handle_result)
InternalGet(k) ==
  /\ Opened
  /\ \E g \in {TableInternalGet(world, table.rep, table.read_options, k)} :
        /\ world' = g.w
        /\ calls' = Append(calls,
             [op |-> "InternalGet", key |-> k, s |-> g.s, handled |-> g.handled,
              effects |-> Effects(world, g.w)])
  /\ UNCHANGED <<table, tfault>>
  /\ UNCHANGED <<lvars, threads, bvars, fvars>>

\* Table::ApproximateOffsetOf(key)
ApproximateOffsetOf(key) ==
  /\ Opened
  /\ calls' = Append(calls,
       [op |-> "ApproximateOffsetOf", key |-> key,
        result |-> TableApproximateOffsetOf(table.rep, key)])
  /\ UNCHANGED <<world, table, tfault>>
  /\ UNCHANGED <<lvars, threads, bvars, fvars>>

\* the entries of a block, as a table iterator walks them
RECURSIVE EntriesFrom(_, _)
EntriesFrom(block, key) ==
  LET Sought(e) ==
        IF ~e.valid THEN <<>>
        ELSE <<[key |-> e.key, value |-> e.value]>> \o EntriesFrom(block, e.key \o <<0>>)
  IN Sought(BlockSeek(block, key))

\* a table iterator (Table::NewIterator) comes to stand on the i-th index
\* entry: BlockReader(table, read_options, index_iter.value())
NewBlockIterator(i) ==
  /\ Opened
  /\ \E index \in {EntriesFrom(table.rep.index_block, <<>>)} :
        /\ i <= Len(index)
        /\ \E w1 \in {BlockReader(world, table.rep, table.read_options, index[i].value)} :
              /\ world' = w1
              /\ calls' = Append(calls,
                   [op |-> "BlockReader", index_value |-> index[i].value,
                    iter |-> Len(w1.iters), effects |-> Effects(world, w1)])
  /\ UNCHANGED <<table, tfault>>
  /\ UNCHANGED <<lvars, threads, bvars, fvars>>

\* the table iterator leaves the block: delete of the block iterator
DeleteBlockIterator(i) ==
  /\ Opened
  /\ i \in 1..Len(world.iters)
  /\ world.iters[i].alive
  /\ world' = DeleteIterator(world, i)
  /\ UNCHANGED <<table, calls, tfault>>
  /\ UNCHANGED <<lvars, threads, bvars, fvars>>

\* the block cache evicts an entry to make room
Evict(h) ==
  /\ Opened
  /\ h \in 1..Len(world.cache.entries)
  /\ world.cache.entries[h].in_cache
  /\ world' = [world EXCEPT !.cache = CacheErase(@, world.cache.entries[h].key)]
  /\ UNCHANGED <<table, calls, tfault>>
  /\ UNCHANGED <<lvars, threads, bvars, fvars>>

\* the size given to Table::Open: that of the file, that of the file before
\* it lost its tail, one too short for a footer
OpenSizes == {Len(world.file.contents), Len(TableFile), kEncodedLength - 1}

\* what footer_space holds before the Read: zeros, or the footer left there
\* by an earlier Open
StaleMemory == {Fill(0, kEncodedLength), Skip(TableFile, FooterOffset)}

\* where a block starts: a bad sector there makes the read of the block fail
BlockStarts(handles) == {h.offset_ : h \in handles}

AllOptions == {Options(p, f, c) : p \in BOOLEAN, f \in BOOLEAN, c \in BOOLEAN}
AllReadOptions == {ReadOptions(v, f) : v \in BOOLEAN, f \in BOOLEAN}

\* opening tables
NextOpen ==
  \/ Closed /\ \E d \in OpenDamage \cup DataDamage : Damage(d)
  \/ Closed /\ CutTail(1)
  \/ Closed /\ \E b \in BlockStarts({FilterHandle, MetaindexHandle, IndexHandle})
                           \cup {FooterOffset} : BadSector(b)
  \/ Closed /\ \E o \in AllOptions, z \in OpenSizes, m \in StaleMemory :
                  Open(o, z, m, ReadOptions(o.paranoid_checks, TRUE))
  \/ Opened /\ calls = <<>> /\ \E k \in LookupKeys : InternalGet(k)
  \/ Opened /\ calls = <<>> /\ \E k \in LookupKeys : ApproximateOffsetOf(k)

SpecOpen == Init /\ [][NextOpen]_vars

\* using tables
NextTable ==
  \/ Closed /\ \E d \in DataDamage : Damage(d)
  \/ Closed /\ \E b \in BlockStarts({DataHandle(1), DataHandle(2), FilterHandle}) : BadSector(b)
  \/ Closed /\ Mmap
  \/ Closed /\ \E o \in AllOptions, r \in AllReadOptions :
                  Open(o, Len(world.file.contents), Fill(0, kEncodedLength), r)
  \/ Opened /\ Len(calls) < MaxCalls /\ \E k \in LookupKeys : InternalGet(k)
  \/ Opened /\ Len(calls) < MaxCalls /\ \E i \in 1..Len(DataBlocks) : NewBlockIterator(i)
  \/ Opened /\ \E i \in 1..Len(world.iters) : DeleteBlockIterator(i)
  \/ Opened /\ \E h \in 1..Len(world.cache.entries) : Evict(h)

SpecTable == Init /\ [][NextTable]_vars

(***************************************************************************)
(* Several threads use one open table without synchronisation.  A call is  *)
(* cut where it touches what the threads share: the calls on the block     *)
(* cache (each is atomic: the cache locks itself), the Read of the file    *)
(* and the deletion of the iterator.  What a call does between two such    *)
(* points touches only the table's fields, which it reads, and its own     *)
(* objects.  The cache may evict an entry at any time.  Each thread makes   *)
(* one call.                                                               *)
(***************************************************************************)
Threads == {1, 2}

Done == [pc |-> "done"]

\* how often block b of w was freed: by DeleteBlock, or by the deleter of
\* the cache
FreedIn(w, b) ==
  w.blocks[b].deletes
    + Cardinality({h \in 1..Len(w.cache.entries) :
                     w.cache.entries[h].value = b /\ w.cache.entries[h].deleted})

\* what Seek(k) on iterator i may give: the entry of the block, unless the
\* block was freed; then the memory read is anything
SeekOutcomes(w, i, k) ==
  IF w.iters[i].block # 0 /\ FreedIn(w, w.iters[i].block) > 0
  THEN {IterSeek(w, i, k), NotValid(OK),
        [valid |-> TRUE, key |-> <<0>>, value |-> <<0>>, status |-> OK]}
  ELSE {IterSeek(w, i, k)}

\* the call th has its iterator: the last one of w
AtSeek(w, th) == [w |-> w, th |-> [th EXCEPT !.pc = "seek", !.iter = Len(w.iters)]]

\* InternalGet and BlockReader up to the first call on the cache or the
\* file: the seek in the index block, the filter, the decoding of the handle
BeginStep(w, rep, op, k) ==
  LET Started(iiter, d, th) ==
        IF ~iiter.valid
             \/ (op = "InternalGet" /\ FilterExcludes(rep.filter, iiter.value, k))
        THEN [w |-> w, th |-> [th EXCEPT !.pc = "return"]]
        ELSE IF d.s # OK THEN AtSeek(MakeIterator(w, 0, 0, d.s), th)
        ELSE IF rep.options.block_cache THEN [w |-> w, th |-> th]
        ELSE [w |-> w, th |-> [th EXCEPT !.pc = "read"]]
      Decoded(iiter, d) ==
        Started(iiter, d,
                [pc |-> "lookup", op |-> op, key |-> k, handle |-> d.handle,
                 block |-> 0, iter |-> 0, found |-> NotValid(iiter.status)])
      Sought(iiter) == Decoded(iiter, HandleDecodeFrom(iiter.value))
  IN Sought(BlockSeek(rep.index_block, k))

\* variant: BlockReader that on a hit takes the block and gives the handle
\* back at once
LookupStepBorrowed(w, rep, th) ==
  LET Looked(lk, w1) ==
        IF lk.handle # 0
        THEN AtSeek([w1 EXCEPT !.cache = CacheRelease(@, lk.handle),
                               !.iters = Append(@,
                                  [block |-> CacheValue(w1.cache, lk.handle),
                                   status |-> OK, alive |-> TRUE, cleanup |-> <<>>])],
                    th)
        ELSE [w |-> w1, th |-> [th EXCEPT !.pc = "read"]]
      Cached(lk) == Looked(lk, [w EXCEPT !.cache = lk.cache])
  IN Cached(CacheLookup(w.cache, CacheKey(rep, th.handle)))

\* BlockReader: block_cache->Lookup(key)
LookupStep(w, rep, th) ==
  LET Looked(lk, w1) ==
        IF lk.handle # 0
        THEN AtSeek(MakeIterator(w1, CacheValue(w1.cache, lk.handle), lk.handle, OK), th)
        ELSE [w |-> w1, th |-> [th EXCEPT !.pc = "read"]]
      Cached(lk) == Looked(lk, [w EXCEPT !.cache = lk.cache])
  IN Cached(CacheLookup(w.cache, CacheKey(rep, th.handle)))

\* BlockReader: ReadBlock and new Block
ReadStep(w, rep, options, th) ==
  LET Made(rb, w2) ==
        IF rep.options.block_cache /\ rb.result.cachable /\ options.fill_cache
        THEN [w |-> w2, th |-> [th EXCEPT !.pc = "insert", !.block = Len(w2.blocks)]]
        ELSE AtSeek(MakeIterator(w2, Len(w2.blocks), 0, rb.s), th)
      Fetched(rb, w1) ==
        IF rb.s # OK THEN AtSeek(MakeIterator(w1, 0, 0, rb.s), th)
        ELSE Made(rb, AllocBlock(w1, rb.result))
      Miss(rb) == Fetched(rb, [w EXCEPT !.file = rb.f])
  IN Miss(ReadBlock(w.file, options.verify_checksums, th.handle))

\* BlockReader: block_cache->Insert(key, block, block->size(), &DeleteCachedBlock)
InsertStep(w, rep, th) ==
  LET Inserted(ins) ==
        AtSeek(MakeIterator([w EXCEPT !.cache = ins.cache], th.block, ins.handle, OK), th)
  IN Inserted(CacheInsert(w.cache, CacheKey(rep, th.handle), th.block,
                          BlockSize(w.blocks[th.block].block)))

\* block_iter->Seek(k), and Valid, key, value and status of the iterator
SeekStep(w, th, found) == [w |-> w, th |-> [th EXCEPT !.pc = "delete", !.found = found]]

\* delete block_iter: its cleanup runs
DeleteStep(w, th) == [w |-> DeleteIterator(w, th.iter), th |-> [th EXCEPT !.pc = "return"]]

\* what the call returns: the status, and the calls of the handler
CallResult(t, th) ==
  [op |-> th.op, key |-> th.key, thread |-> t,
   s |-> th.found.status,
   handled |-> IF th.found.valid
               THEN <<[key |-> th.found.key, value |-> th.found.value]>>
               ELSE <<>>]

\* thread t takes the step st
Proceed(t, st) ==
  /\ world' = st.w
  /\ IF st.th.pc = "return"
     THEN /\ calls' = Append(calls, CallResult(t, st.th))
          /\ threads' = [threads EXCEPT ![t] = Done]
     ELSE /\ threads' = [threads EXCEPT ![t] = st.th]
          /\ UNCHANGED calls
  /\ UNCHANGED <<table, tfault>>
  /\ UNCHANGED <<lvars, bvars, fvars>>

\* thread t calls InternalGet(k) (op "InternalGet"), or its table iterator
\* moves to the block for k and seeks k in it (op "BlockReader")
Begin(t, op, k) ==
  /\ Opened
  /\ threads[t].pc = "idle"
  /\ Proceed(t, BeginStep(world, table.rep, op, k))

Lookup(t) ==
  /\ threads[t].pc = "lookup"
  /\ Proceed(t, LookupStep(world, table.rep, threads[t]))

Read(t) ==
  /\ threads[t].pc = "read"
  /\ Proceed(t, ReadStep(world, table.rep, table.read_options, threads[t]))

Insert(t) ==
  /\ threads[t].pc = "insert"
  /\ Proceed(t, InsertStep(world, table.rep, threads[t]))

\* block_iter->Seek(k) and what the call takes from the iterator
Seek(t) ==
  /\ threads[t].pc = "seek"
  /\ \E found \in SeekOutcomes(world, threads[t].iter, threads[t].key) :
       Proceed(t, SeekStep(world, threads[t], found))

\* delete block_iter, and the call returns
Delete(t) ==
  /\ threads[t].pc = "delete"
  /\ Proceed(t, DeleteStep(world, threads[t]))

\* Table::ApproximateOffsetOf(key) by thread t: it touches the table only
ApproximateOffsetOfBy(t, key) ==
  /\ Opened
  /\ threads[t].pc = "idle"
  /\ calls' = Append(calls,
       [op |-> "ApproximateOffsetOf", key |-> key, thread |-> t,
        result |-> TableApproximateOffsetOf(table.rep, key)])
  /\ threads' = [threads EXCEPT ![t] = Done]
  /\ UNCHANGED <<world, table, tfault>>
  /\ UNCHANGED <<lvars, bvars, fvars>>

\* the keys the threads use: in the first block, excluded by the filter, in
\* the second block, beyond the index
ThreadKeys == { <<97>>, <<98>>, <<101>>, <<103>> }

ThreadOptions == {Options(FALSE, f, c) : f \in BOOLEAN, c \in BOOLEAN}
ThreadReadOptions == {ReadOptions(FALSE, f) : f \in BOOLEAN}

NextThreads ==
  \/ Closed /\ BadSector(DataHandle(2).offset_)
  \/ Closed /\ \E o \in ThreadOptions, r \in ThreadReadOptions :
                  Open(o, Len(world.file.contents), Fill(0, kEncodedLength), r)
  \/ Opened /\ \E t \in Threads, k \in ThreadKeys : Begin(t, "InternalGet", k)
  \/ Opened /\ \E t \in Threads, k \in ThreadKeys : Begin(t, "BlockReader", k)
  \/ Opened /\ \E t \in Threads, k \in ThreadKeys : ApproximateOffsetOfBy(t, k)
  \/ \E t \in Threads : Lookup(t)
  \/ \E t \in Threads : Read(t)
  \/ \E t \in Threads : Insert(t)
  \/ \E t \in Threads : Seek(t)
  \/ \E t \in Threads : Delete(t)
  \/ Opened /\ \E h \in 1..Len(world.cache.entries) : Evict(h)

SpecThreads == Init /\ [][NextThreads]_vars

(***************************************************************************)
(* Properties of the table reader.                                         *)
(***************************************************************************)
\* Table::Open was given the size the file has
WholeFile == table.state = "open" /\ table.size = Len(world.file.contents)

\* the byte at `offset` could not be read
BadAt(offset) == tfault.kind = "bad sector" /\ tfault.offset = offset

\* C11: Table::Open leaves a table exactly when it returns OK; a size below
\* 48, a failed read of the footer, a wrong magic number, an undecodable
\* handle in the footer and a failed read of the index block each make it
\* return the non-OK status of that failure and leave no table.
C11_OpenFailure ==
  table.state = "open" =>
    /\ (table.rep # NoTable) <=> (table.s = OK)
    /\ table.size < kEncodedLength =>
         table.s = Corruption("file is too short to be an sstable")
    /\ WholeFile /\ BadAt(FooterOffset) => table.s = IOError("read")
    /\ WholeFile /\ tfault.kind = "magic" =>
         table.s = Corruption("not an sstable (bad magic number)")
    /\ WholeFile /\ tfault.kind = "footer handle" =>
         table.s = Corruption("bad block handle")
    /\ WholeFile /\ BadAt(IndexHandle.offset_) => table.s = IOError("read")
    /\ WholeFile /\ tfault.kind = "index type" =>
         table.s = IF table.options.paranoid_checks
                   THEN Corruption("block checksum mismatch")
                   ELSE Corruption("bad block type")
    /\ WholeFile /\ tfault.kind = "index crc" /\ table.options.paranoid_checks =>
         table.s = Corruption("block checksum mismatch")

\* Open failed on the index block of a file whose footer is sound
C11_Witness ==
  /\ WholeFile
  /\ tfault.kind = "index type"
  /\ ~table.options.paranoid_checks
  /\ table.s = Corruption("bad block type")
  /\ table.rep = NoTable

\* C12: a table file that lost its last byte, opened with the size it has
\* now, gives Corruption("not an sstable (bad magic number)") and no table.
C12_CutByOne ==
  WholeFile /\ tfault.kind = "cut" /\ tfault.n = 1 =>
    /\ table.s = Corruption("not an sstable (bad magic number)")
    /\ table.rep = NoTable

C12_Witness ==
  /\ WholeFile
  /\ tfault.kind = "cut"
  /\ Len(world.file.contents) = Len(TableFile) - 1
  /\ table.s = Corruption("not an sstable (bad magic number)")

\* the file of this state as it is before any call on it
FreshWorld ==
  NewWorld(NewRandomAccessFile(world.file.contents, world.file.mmap, world.file.bad))

\* the Open of this state done with no filter policy
WithoutPolicy ==
  TableOpen(FreshWorld, [table.options EXCEPT !.filter_policy = FALSE],
            table.size, Fill(0, kEncodedLength))

\* the metaindex block cannot be read, the filter handle in it cannot be
\* decoded, or the filter block cannot be read
MetaFailure ==
  \/ tfault.kind \in {"metaindex type", "filter handle", "filter type"}
  \/ tfault.kind = "filter crc" /\ table.options.paranoid_checks
  \/ BadAt(MetaindexHandle.offset_)
  \/ BadAt(FilterHandle.offset_)

\* C13: with a filter policy configured, a failure to read the metaindex
\* block, to decode the filter handle or to read the filter block leaves Open
\* returning OK with a table that has no filter, and InternalGet of any key
\* on it gives the status and the handler calls that it gives on the table
\* opened from the same file with no filter policy.
C13_MetaFailureNotFatal ==
  WholeFile /\ table.options.filter_policy /\ MetaFailure =>
    /\ table.s = OK
    /\ table.rep # NoTable
    /\ table.rep.filter = NoFilter
    /\ WithoutPolicy.s = OK
    /\ \A k \in LookupKeys :
         LET with == TableInternalGet(world, table.rep, table.read_options, k)
             without == TableInternalGet(WithoutPolicy.w, WithoutPolicy.table,
                                         table.read_options, k)
         IN with.s = without.s /\ with.handled = without.handled

\* a key was found in a table whose filter handle could not be decoded
C13_Witness ==
  /\ WholeFile
  /\ table.options.filter_policy
  /\ tfault.kind = "filter handle"
  /\ table.s = OK
  /\ table.rep.filter = NoFilter
  /\ \E i \in 1..Len(calls) : calls[i].op = "InternalGet" /\ calls[i].handled # <<>>

\* the index entry that InternalGet(k) comes to stand on, and the handle in it
IndexEntry(k) == BlockSeek(table.rep.index_block, k)
ChosenHandle(k) == HandleDecodeFrom(IndexEntry(k).value)

\* the table has a filter and InternalGet(k) has a block offset to ask it
\* about; what the filter answers
FilterConsulted(k) ==
  table.rep.filter # NoFilter /\ IndexEntry(k).valid /\ ChosenHandle(k).s = OK
FilterAnswer(k) == KeyMayMatch(table.rep.filter, ChosenHandle(k).handle.offset_, k)

NoEffects == [reads |-> 0, cache_ops |-> <<>>, blocks |-> 0]

\* C14: an InternalGet for which the table has a filter, the handle of the
\* index entry decodes and KeyMayMatch(handle.offset, key) is false returns OK
\* with no Read of the file, no call on the block cache, no Block made and
\* no call of the handler.
C14_FilterSkipsBlock ==
  \A i \in 1..Len(calls) :
    calls[i].op = "InternalGet" /\ FilterConsulted(calls[i].key)
      /\ ~FilterAnswer(calls[i].key)
    => /\ calls[i].s = OK
       /\ calls[i].handled = <<>>
       /\ calls[i].effects = NoEffects

\* "d" was looked up in a table with filter and block cache: the filter
\* excluded it
C14_Witness ==
  /\ Opened
  /\ table.options.block_cache
  /\ \E i \in 1..Len(calls) :
       /\ calls[i].op = "InternalGet"
       /\ calls[i].key = <<100>>
       /\ FilterConsulted(<<100>>)
       /\ ~FilterAnswer(<<100>>)
       /\ calls[i].effects = NoEffects

\* C15: when InternalGet(K) on a table with a filter calls the handler, the
\* filter answers true for K and the offset of the block chosen for K.
C15_FilterSound ==
  \A i \in 1..Len(calls) :
    calls[i].op = "InternalGet" /\ table.rep.filter # NoFilter
      /\ calls[i].handled # <<>>
    => FilterConsulted(calls[i].key) /\ FilterAnswer(calls[i].key)

\* "ab" is not in the table and the filter lets it through: the handler got
\* the entry after it
C15_Witness ==
  /\ Opened
  /\ table.rep.filter # NoFilter
  /\ \E i \in 1..Len(calls) :
       /\ calls[i].op = "InternalGet"
       /\ calls[i].key = <<97, 98>>
       /\ FilterAnswer(<<97, 98>>)
       /\ calls[i].handled = <<[key |-> <<99>>, value |-> <<67>>]>>

\* the key is greater than every key of the index block of the table file
PastLastIndexKey(key) == \A j \in 1..Len(IndexKeys) : Compare(IndexKeys[j], key) < 0

\* C16: an InternalGet of a key greater than every index key returns OK,
\* reads no data block (no Read of the file, no call on the block cache, no
\* Block made) and does not call the handler.
C16_PastTheIndex ==
  \A i \in 1..Len(calls) :
    calls[i].op = "InternalGet" /\ PastLastIndexKey(calls[i].key)
    => /\ calls[i].s = OK
       /\ calls[i].handled = <<>>
       /\ calls[i].effects = NoEffects

\* "g" was looked up
C16_Witness ==
  /\ Opened
  /\ \E i \in 1..Len(calls) :
       /\ calls[i].op = "InternalGet"
       /\ calls[i].key = <<103>>
       /\ ~IndexEntry(<<103>>).valid
       /\ calls[i].s = OK

\* the entries of the index block of the table, in order, and the number of
\* the first of them whose key is >= key (0: there is none)
IndexEntries == EntriesFrom(table.rep.index_block, <<>>)
FirstAtOrAfter(key) ==
  LET at == {j \in 1..Len(IndexEntries) : Compare(IndexEntries[j].key, key) >= 0}
  IN IF at = {} THEN 0 ELSE CHOOSE j \in at : \A j2 \in at : j <= j2

\* C17: ApproximateOffsetOf(key) is the offset in the handle of the first
\* index entry whose key is >= key if there is such an entry and its handle
\* decodes, and the offset of the metaindex block otherwise.
C17_ApproximateOffset ==
  \A i \in 1..Len(calls) :
    calls[i].op = "ApproximateOffsetOf" =>
      LET j == FirstAtOrAfter(calls[i].key)
      IN calls[i].result =
           IF j # 0 /\ HandleDecodeFrom(IndexEntries[j].value).s = OK
           THEN DataHandle(j).offset_
           ELSE MetaindexHandle.offset_

\* the handle of the second index entry is damaged: the offset of "e", which
\* is in the second data block, is that of the metaindex block
C17_Witness ==
  /\ Opened
  /\ tfault.kind = "index handle"
  /\ Len(IndexEntries) = Len(IndexKeys)
  /\ \E i \in 1..Len(calls) :
       /\ calls[i].op = "ApproximateOffsetOf"
       /\ calls[i].key = <<101>>
       /\ FirstAtOrAfter(<<101>>) = 2
       /\ calls[i].result = MetaindexHandle.offset_

\* the cache entries made for block b, the live iterators that hold cache
\* handle h, and how often block b was freed: by DeleteBlock, or by the
\* deleter of the cache (DeleteCachedBlock) once an entry has no reference
EntriesOf(b) == {h \in 1..Len(world.cache.entries) : world.cache.entries[h].value = b}
Holders(h) ==
  {i \in 1..Len(world.iters) :
     world.iters[i].alive
     /\ world.iters[i].cleanup = <<[fn |-> "ReleaseBlock", arg |-> h]>>}
TimesFreed(b) ==
  world.blocks[b].deletes
    + Cardinality({h \in EntriesOf(b) : world.cache.entries[h].deleted})

\* the iterators that BlockReader returned over a block
BlockIterators == {i \in 1..Len(world.iters) : world.iters[i].block # 0}

\* the Release calls made on the block cache so far
Releases == {n \in 1..Len(world.cache.ops) : world.cache.ops[n].op = "Release"}

\* C18: an iterator that BlockReader returns over a block has one cleanup:
\* the release of its cache handle if the block is in a cache entry, the
\* deletion of the block if not.  Whatever calls of BlockReader, deletions of
\* iterators and evictions happen, a cache entry has one reference per live
\* iterator holding it (and one of the cache while it is in the cache), one
\* Release was made per deleted iterator that held a handle, a block outside
\* the cache has been deleted once if its iterator is deleted and not at all
\* otherwise, no block is freed twice, and the block of a live iterator is
\* not freed.
C18_OneCleanup ==
  /\ \A i \in BlockIterators :
       LET it == world.iters[i]
       IN /\ Len(it.cleanup) = 1
          /\ IF EntriesOf(it.block) # {}
             THEN /\ it.cleanup[1].fn = "ReleaseBlock"
                  /\ it.cleanup[1].arg \in EntriesOf(it.block)
             ELSE /\ it.cleanup[1] = [fn |-> "DeleteBlock", arg |-> it.block]
                  /\ \A i2 \in BlockIterators : world.iters[i2].block = it.block => i2 = i
                  /\ world.blocks[it.block].deletes = IF it.alive THEN 0 ELSE 1
          /\ it.alive => TimesFreed(it.block) = 0
  /\ \A h \in 1..Len(world.cache.entries) :
       LET e == world.cache.entries[h]
       IN /\ e.refs = (IF e.in_cache THEN 1 ELSE 0) + Cardinality(Holders(h))
          /\ e.deleted <=> e.refs = 0
  /\ Cardinality(Releases) =
       Cardinality({i \in BlockIterators :
                      ~world.iters[i].alive /\ world.iters[i].cleanup[1].fn = "ReleaseBlock"})
  /\ \A b \in 1..Len(world.blocks) : TimesFreed(b) <= 1

\* two iterators were made over one cached block; one is deleted, the cache
\* has evicted the entry, and the other iterator still holds the block
C18_Witness ==
  \E i, i2 \in BlockIterators :
    /\ world.iters[i].block = world.iters[i2].block
    /\ ~world.iters[i].alive
    /\ world.iters[i2].alive
    /\ \E h \in EntriesOf(world.iters[i].block) :
         /\ ~world.cache.entries[h].in_cache
         /\ world.cache.entries[h].refs = 1
    /\ TimesFreed(world.iters[i].block) = 0

\* the status with which a BlockReader call on index_value that made `reads`
\* Read calls failed, OK if it did not fail: the handle could not be decoded,
\* or the block was read (it was not in the cache) and ReadBlock failed
FailingStatus(index_value, reads) ==
  LET d == HandleDecodeFrom(index_value)
  IN IF d.s # OK THEN d.s
     ELSE IF reads = 0 THEN OK
     ELSE ReadBlock(world.file, table.read_options.verify_checksums, d.handle).s

\* the cache calls of a call that obtained no handle: at most a Lookup
NoHandleTaken(cache_ops) ==
  \A n \in 1..Len(cache_ops) : cache_ops[n].op = "Lookup"

\* C19: a BlockReader call that cannot decode the handle, or whose ReadBlock
\* fails, returns an error iterator with the status of the failure, with no
\* cleanup (it holds no cache handle), having inserted nothing in the cache
\* and made no Block; an InternalGet that makes such a call returns that
\* status and does not call the handler.
C19_ErrorIterator ==
  \A i \in 1..Len(calls) :
    /\ calls[i].op = "BlockReader"
         /\ FailingStatus(calls[i].index_value, calls[i].effects.reads) # OK
       => /\ world.iters[calls[i].iter] =
               [block |-> 0, alive |-> world.iters[calls[i].iter].alive, cleanup |-> <<>>,
                status |-> FailingStatus(calls[i].index_value, calls[i].effects.reads)]
          /\ calls[i].effects.blocks = 0
          /\ NoHandleTaken(calls[i].effects.cache_ops)
    /\ calls[i].op = "InternalGet" /\ IndexEntry(calls[i].key).valid
         /\ ~(FilterConsulted(calls[i].key) /\ ~FilterAnswer(calls[i].key))
         /\ FailingStatus(IndexEntry(calls[i].key).value, calls[i].effects.reads) # OK
       => /\ calls[i].s = FailingStatus(IndexEntry(calls[i].key).value,
                                        calls[i].effects.reads)
          /\ calls[i].handled = <<>>
          /\ calls[i].effects.blocks = 0
          /\ NoHandleTaken(calls[i].effects.cache_ops)

\* with a block cache: the first data block cannot be read, a BlockReader
\* call on it returned an error iterator, and InternalGet("a") returned the
\* IOError
C19_Witness ==
  /\ Opened
  /\ table.options.block_cache
  /\ BadAt(DataHandle(1).offset_)
  /\ \E i, i2 \in 1..Len(calls) :
       /\ calls[i].op = "BlockReader"
       /\ world.iters[calls[i].iter].block = 0
       /\ world.iters[calls[i].iter].status = IOError("read")
       /\ calls[i2].op = "InternalGet"
       /\ calls[i2].key = <<97>>
       /\ calls[i2].s = IOError("read")

\* Table::Open done again on the file, with nothing else going on
Reopened == TableOpen(FreshWorld, table.options, table.size, Fill(0, kEncodedLength))

\* what the call `op` for key k returns when it runs alone on the table
Alone(op, k) ==
  IF op = "InternalGet"
  THEN LET g == TableInternalGet(Reopened.w, Reopened.table, table.read_options, k)
       IN [s |-> g.s, handled |-> g.handled]
  ELSE LET iiter == BlockSeek(Reopened.table.index_block, k)
           w1 == BlockReader(Reopened.w, Reopened.table, table.read_options, iiter.value)
           found == IterSeek(w1, Len(w1.iters), k)
       IN IF ~iiter.valid THEN [s |-> iiter.status, handled |-> <<>>]
          ELSE [s |-> found.status,
                handled |-> IF found.valid
                            THEN <<[key |-> found.key, value |-> found.value]>>
                            ELSE <<>>]

\* C20: while threads run InternalGet, the BlockReader calls of table
\* iterators and ApproximateOffsetOf on a table in any interleaving, and the
\* cache evicts, the fields of the table stay what Open made them, the file
\* stays what it was, and every call returns what it returns when it runs
\* alone.
C20_SharedTable ==
  Opened =>
    /\ table.rep = Reopened.table
    /\ world.file.contents = TableFile
    /\ \A i \in 1..Len(calls) :
         IF calls[i].op = "ApproximateOffsetOf"
         THEN calls[i].result = TableApproximateOffsetOf(Reopened.table, calls[i].key)
         ELSE /\ calls[i].s = Alone(calls[i].op, calls[i].key).s
              /\ calls[i].handled = Alone(calls[i].op, calls[i].key).handled

\* two threads missed the cache for the same block, both read it and both
\* inserted it; both calls have returned the entry of "a"
C20_Witness ==
  /\ Opened
  /\ \E h, h2 \in 1..Len(world.cache.entries) :
       h # h2 /\ world.cache.entries[h].key = world.cache.entries[h2].key
  /\ Len(calls) = 2
  /\ calls[1].thread # calls[2].thread
  /\ \A i \in 1..2 : calls[i].handled = <<[key |-> <<97>>, value |-> <<65>>]>>


(***************************************************************************)
(* One byte of a block of the table file is changed before the table is    *)
(* opened: a byte of the block's contents, its compression type or one of  *)
(* the four bytes of its crc.  The table is opened and one call is made.   *)
(***************************************************************************)
\* the blocks of the file by name
BlockNames == {"data 1", "data 2", "filter", "metaindex", "index"}

HandleOf(name) ==
  IF name = "data 1" THEN DataHandle(1)
  ELSE IF name = "data 2" THEN DataHandle(2)
  ELSE IF name = "filter" THEN FilterHandle
  ELSE IF name = "metaindex" THEN MetaindexHandle
  ELSE IndexHandle

\* the offsets of the bytes of a block in the file: contents and trailer
BlockBytes(h) == h.offset_ .. (h.offset_ + h.size_ + kBlockTrailerSize - 1)

\* the values a byte is changed to
FlipValues(old) == {(old + 1) % 256, (old + 128) % 256, 255 - old} \ {old}

\* the byte at offset `at` of the file becomes b
Flip(at, b) ==
  /\ Closed
  /\ tfault.kind = "none"
  /\ world.file.contents[at + 1] # b
  /\ world' = [world EXCEPT !.file.contents[at + 1] = b]
  /\ tfault' = [kind |-> "flip", at |-> at, b |-> b]
  /\ UNCHANGED <<table, calls>>
  /\ UNCHANGED <<lvars, threads, bvars, fvars>>

NextFlip ==
  \/ Closed /\ \E name \in BlockNames : \E at \in BlockBytes(HandleOf(name)) :
                  \E b \in FlipValues(TableFile[at + 1]) : Flip(at, b)
  \/ Closed /\ \E o \in AllOptions, r \in AllReadOptions :
                  Open(o, Len(world.file.contents), Fill(0, kEncodedLength), r)
  \/ Opened /\ calls = <<>> /\ \E k \in LookupKeys : InternalGet(k)
  \/ Opened /\ calls = <<>> /\ \E i \in 1..Len(DataBlocks) : NewBlockIterator(i)

SpecFlip == Init /\ [][NextFlip]_vars

(***************************************************************************)
(* A BlockBuilder at work: it is constructed with a restart interval, keys *)
(* are added in increasing order, the block is finished, the builder is    *)
(* reset and used again.  A twin, constructed anew where the builder is    *)
(* reset, is given the same calls.                                         *)
(***************************************************************************)
\* variant: Reset that keeps last_key_
BuilderResetKeepsLastKey(b) ==
  [b EXCEPT !.buffer_ = <<>>,
            !.restarts_ = <<0>>,
            !.counter_ = 0,
            !.finished_ = FALSE]

\* BlockBuilder::Reset()
BuilderReset(b) ==
  [b EXCEPT !.buffer_ = <<>>,
            !.restarts_ = <<0>>,
            !.counter_ = 0,
            !.finished_ = FALSE,
            !.last_key_ = <<>>]

\* variant: CurrentSizeEstimate that leaves out the restart count
BuilderCurrentSizeEstimateNoCount(b) == Len(b.buffer_) + Len(b.restarts_) * 4

\* BlockBuilder::CurrentSizeEstimate(): sizeof(uint32_t) is 4
BuilderCurrentSizeEstimate(b) == Len(b.buffer_) + Len(b.restarts_) * 4 + 4

\* BlockBuilder::empty()
BuilderEmpty(b) == b.buffer_ = <<>>

\* the keys added, "a", "ab", "abc" and "abd", and their values "1" to "4"
BuilderKeys == << <<97>>, <<97, 98>>, <<97, 98, 99>>, <<97, 98, 100>> >>
BuilderValue(i) == <<48 + i>>

\* options.block_restart_interval of the builders constructed
RestartIntervals == {1, 2, 3}

\* the call and what it returned, from the builder and from its twin
BuilderCall(op, result, twin_result) ==
  [op |-> op, result |-> result, twin_result |-> twin_result]

\* BlockBuilder(options) with a block_restart_interval other than the default
Construct(interval) ==
  /\ bcalls = <<>>
  /\ resets = <<>>
  /\ builder = NewBlockBuilder(kBlockRestartInterval)
  /\ builder' = NewBlockBuilder(interval)
  /\ twin' = NewBlockBuilder(interval)
  /\ UNCHANGED <<bcalls, resets>>
  /\ UNCHANGED <<lvars, tvars, fvars>>

\* Add(key, value): Finish was not called since the last Reset, and the key
\* is larger than any key added
Add(i) ==
  /\ Len(bcalls) < MaxBuilderCalls
  /\ ~builder.finished_
  /\ builder.buffer_ = <<>> \/ Compare(BuilderKeys[i], builder.last_key_) > 0
  /\ builder' = BuilderAdd(builder, BuilderKeys[i], BuilderValue(i))
  /\ twin' = BuilderAdd(twin, BuilderKeys[i], BuilderValue(i))
  /\ bcalls' = Append(bcalls, [op |-> "Add", key |-> BuilderKeys[i], value |-> BuilderValue(i)])
  /\ UNCHANGED resets
  /\ UNCHANGED <<lvars, tvars, fvars>>

\* Finish(): the slice returned is the buffer
Finish ==
  /\ Len(bcalls) < MaxBuilderCalls
  /\ builder' = BuilderFinish(builder)
  /\ twin' = BuilderFinish(twin)
  /\ bcalls' = Append(bcalls,
       BuilderCall("Finish", BuilderFinish(builder).buffer_, BuilderFinish(twin).buffer_))
  /\ UNCHANGED resets
  /\ UNCHANGED <<lvars, tvars, fvars>>

\* CurrentSizeEstimate()
CurrentSizeEstimate ==
  /\ Len(bcalls) < MaxBuilderCalls
  /\ bcalls' = Append(bcalls,
       BuilderCall("CurrentSizeEstimate", BuilderCurrentSizeEstimate(builder),
                   BuilderCurrentSizeEstimate(twin)))
  /\ UNCHANGED <<builder, twin, resets>>
  /\ UNCHANGED <<lvars, tvars, fvars>>

\* empty()
Empty ==
  /\ Len(bcalls) < MaxBuilderCalls
  /\ bcalls' = Append(bcalls,
       BuilderCall("empty", BuilderEmpty(builder), BuilderEmpty(twin)))
  /\ UNCHANGED <<builder, twin, resets>>
  /\ UNCHANGED <<lvars, tvars, fvars>>

\* Reset(): the twin is a new BlockBuilder with the same options; what the
\* builder had been through is kept in short
Reset ==
  /\ Len(resets) < MaxResets
  /\ builder' = BuilderReset(builder)
  /\ twin' = NewBlockBuilder(builder.block_restart_interval)
  /\ bcalls' = <<>>
  /\ resets' = Append(resets, [added |-> builder.last_key_ # <<>>,
                               finished |-> builder.finished_])
  /\ UNCHANGED <<lvars, tvars, fvars>>

NextBuilder ==
  \/ \E interval \in RestartIntervals : Construct(interval)
  \/ \E i \in 1..Len(BuilderKeys) : Add(i)
  \/ Finish
  \/ CurrentSizeEstimate
  \/ Empty
  \/ Reset

SpecBuilder == Init /\ [][NextBuilder]_vars

(***************************************************************************)
(* The footer on its own: handles are set on a Footer, the Footer is       *)
(* encoded into an empty string, and the string is decoded.                *)
(***************************************************************************)
\* handle values whose varint64 takes one, two, three and four bytes
HandleValues == {0, 50, 80, 100, 127, 128, 200, 16383, 16384, 2 ^ 21, 2 ^ 28 - 1}
Handles == {BlockHandle(o, z) : o \in {0, 100, 200, 16384, 2 ^ 21}, z \in HandleValues}

\* Footer::set_metaindex_handle(h)
set_metaindex_handle(h) ==
  /\ encoded = NoString
  /\ footer_.metaindex_handle = NoHandle
  /\ footer_' = [footer_ EXCEPT !.metaindex_handle = h]
  /\ UNCHANGED <<encoded, decoded, original>>
  /\ UNCHANGED <<bvars, lvars, tvars>>

\* Footer::set_index_handle(h)
set_index_handle(h) ==
  /\ encoded = NoString
  /\ footer_.index_handle = NoHandle
  /\ footer_' = [footer_ EXCEPT !.index_handle = h]
  /\ UNCHANGED <<encoded, decoded, original>>
  /\ UNCHANGED <<bvars, lvars, tvars>>

\* std::string dst; footer.EncodeTo(&dst): both handles have been set
EncodeTo ==
  /\ encoded = NoString
  /\ footer_.metaindex_handle # NoHandle
  /\ footer_.index_handle # NoHandle
  /\ encoded' = FooterEncodeTo(<<>>, footer_.metaindex_handle, footer_.index_handle)
  /\ UNCHANGED <<footer_, decoded, original>>
  /\ UNCHANGED <<bvars, lvars, tvars>>

\* Slice input(dst); Footer().DecodeFrom(&input)
DecodeFrom ==
  /\ encoded # NoString
  /\ decoded = NoFooter
  /\ decoded' = FooterDecodeFrom(encoded, encoded)
  /\ UNCHANGED <<footer_, encoded, original>>
  /\ UNCHANGED <<bvars, lvars, tvars>>

NextFooter ==
  \/ \E h \in Handles : set_metaindex_handle(h)
  \/ \E h \in Handles : set_index_handle(h)
  \/ EncodeTo
  \/ DecodeFrom

SpecFooter == Init /\ [][NextFooter]_vars

(***************************************************************************)
(* A log that is written again after a crash: the writer stops at the end  *)
(* of a fragment, what it had not written is lost, and a Writer            *)
(* constructed with the length of the file appends to it.                  *)
(***************************************************************************)
\* a record of kBlockSize - 14 bytes leaves room for a header and no more
RecordSizesReopened == {100, kBlockSize - 14, 100000}

\* the end of a fragment the writer has emitted
EndInFile(e) == e.file_offset + kHeaderSize + e.length

\* where the writer stops: after any fragment but the last one written
CrashPoints ==
  {EndInFile(writer.emitted[i]) : i \in 1..(Len(writer.emitted) - 1)}

\* the offsets a reader of the reopened log is opened at: the start of the
\* file and the start of a fragment that begins a record
InitialOffsetsReopened ==
  {0} \cup {writer.emitted[i].file_offset :
              i \in {j \in 1..Len(writer.emitted) :
                       writer.emitted[j].type \in {kFullType, kFirstType}}}

\* the file is cut at p and Writer(dest, dest_length) is constructed on it;
\* emitted keeps the fragments that are still in the file
Reopen(p) ==
  /\ phase = "write"
  /\ damage.kind = "none"
  /\ writer' = [NewWriter([contents |-> Prefix(writer.dest.contents, p), ops |-> <<>>], p)
                  EXCEPT !.records = writer.records,
                         !.emitted = SelectSeq(writer.emitted, LAMBDA e : EndInFile(e) <= p)]
  /\ damage' = [kind |-> "reopen", at |-> p]
  /\ UNCHANGED <<written, reader, results, phase>>
  /\ UNCHANGED <<bvars, fvars, tvars>>

\* Writer::AddRecord on the reopened log
AddRecordReopened(n) ==
  /\ phase = "write"
  /\ damage.kind = "reopen"
  /\ Len(written) < MaxRecords + 1
  /\ writer' = WriterAddRecord(writer, Payload(Len(written) + 1, n), 0)
  /\ written' = Append(written, Payload(Len(written) + 1, n))
  /\ UNCHANGED <<damage, reader, results, phase>>
  /\ UNCHANGED <<bvars, fvars, tvars>>

NextReopened ==
  \/ Writing /\ \E n \in RecordSizesReopened : AddRecord(n)
  \/ Writing /\ \E p \in CrashPoints : Reopen(p)
  \/ \E n \in RecordSizesReopened : AddRecordReopened(n)
  \/ phase = "write" /\ \E o \in InitialOffsetsReopened, c \in BOOLEAN : OpenReader(o, c, 0)
  \/ ReadRecord

SpecReopened == Init /\ [][NextReopened]_vars

(***************************************************************************)
(* A log of which one fragment is garbled after the writer stopped: bytes  *)
(* of its crc or of its payload are zeroed, or its length field is set to  *)
(* 0xffff, which no block can hold.                                        *)
(***************************************************************************)
\* a record of kBlockSize - 7 bytes fills a block to its last byte, and so
\* does one of kBlockSize - 114 bytes after a record of 100 bytes
RecordSizesGarbled == {100, kBlockSize - 114, kBlockSize - 7, 40000}

\* Writer::AddRecord on the log that is garbled later: one record more than
\* in the other logs, to have records before and after a garbled block
AddRecordGarbled(n) ==
  /\ phase = "write"
  /\ damage.kind = "none"
  /\ Len(written) < MaxRecords + 1
  /\ writer' = WriterAddRecord(writer, Payload(Len(written) + 1, n), 0)
  /\ written' = Append(written, Payload(Len(written) + 1, n))
  /\ UNCHANGED <<damage, reader, results, phase>>
  /\ UNCHANGED <<bvars, fvars, tvars>>

\* the ranges <<from, length>> zeroed: the crc of a fragment, and the first
\* bytes of its payload
ChecksumRanges ==
  {<<writer.emitted[i].file_offset + d[1], d[2]>> :
     i \in 1..Len(writer.emitted), d \in {<<0, 4>>, <<kHeaderSize, 5>>}}

\* the offsets a reader of the garbled log is opened at: the start of the
\* file, a byte inside its first fragment and the second block
InitialOffsetsGarbled == {0, 10, kBlockSize}

\* header[4] and header[5] of fragment i are overwritten with 0xff
BadLength(i) ==
  /\ phase = "write"
  /\ damage.kind = "none"
  /\ writer' = [writer EXCEPT !.dest.contents =
                   Concat(Concat(Prefix(@, writer.emitted[i].file_offset + 4), Rep(255, 2)),
                          RemovePrefix(@, writer.emitted[i].file_offset + 6))]
  /\ damage' = [kind |-> "length", at |-> writer.emitted[i].file_offset + 4, n |-> 2]
  /\ UNCHANGED <<written, reader, results, phase>>
  /\ UNCHANGED <<bvars, fvars, tvars>>

NextGarbled ==
  \/ \E n \in RecordSizesGarbled : AddRecordGarbled(n)
  \/ Writing /\ \E z \in ChecksumRanges : ZeroRange(z[1], z[2])
  \/ Writing /\ \E i \in 1..Len(writer.emitted) : BadLength(i)
  \/ phase = "write" /\ \E o \in InitialOffsetsGarbled, c \in BOOLEAN : OpenReader(o, c, 0)
  \/ ReadRecord

SpecGarbled == Init /\ [][NextGarbled]_vars

(***************************************************************************)
(* The footer appended to a string: handles are set on a Footer, and the   *)
(* Footer is encoded into a string that already holds bytes, as            *)
(* footer.EncodeTo(&dst) is with a dst that is in use.                     *)
(***************************************************************************)
\* what dst holds before the call: nothing, one byte, and as many bytes as
\* the padding leaves, one less and one more
PriorContents ==
  {<<>>, <<7>>, Fill(7, 2 * kMaxEncodedLength - 1), Fill(7, 2 * kMaxEncodedLength),
   Fill(7, 2 * kMaxEncodedLength + 1)}

\* std::string dst(prior); footer.EncodeTo(&dst): both handles have been set
EncodeToAppended(prior) ==
  /\ encoded = NoString
  /\ footer_.metaindex_handle # NoHandle
  /\ footer_.index_handle # NoHandle
  /\ original' = prior
  /\ encoded' = FooterEncodeTo(prior, footer_.metaindex_handle, footer_.index_handle)
  /\ UNCHANGED <<footer_, decoded>>
  /\ UNCHANGED <<bvars, lvars, tvars>>

NextAppended ==
  \/ \E h \in Handles : set_metaindex_handle(h)
  \/ \E h \in Handles : set_index_handle(h)
  \/ \E prior \in PriorContents : EncodeToAppended(prior)

SpecAppended == Init /\ [][NextAppended]_vars

(***************************************************************************)
(* A log written to a file whose calls may fail: in each AddRecord call    *)
(* one call on the file, numbered from 1 in the order in which AddRecord   *)
(* makes them, returns an error and writes nothing; 0 lets the call        *)
(* through.                                                                *)
(***************************************************************************)
\* the file calls of an AddRecord call that may fail
MaxFault == 7
Faults == 0..MaxFault

\* a record that fits in a block and leaves 3 bytes of it, one that ends in
\* the next block, and small ones
RecordSizesFaulty == {3, 100, kBlockSize - 10, 40000}

\* Writer::AddRecord(slice) on a file whose call number fault fails
AddRecordFaulty(n, fault) ==
  /\ phase = "write"
  /\ damage.kind = "none"
  /\ Len(written) < MaxRecords + 1
  /\ writer' = WriterAddRecord(writer, Payload(Len(written) + 1, n), fault)
  /\ written' = Append(written, Payload(Len(written) + 1, n))
  /\ UNCHANGED <<damage, reader, results, phase>>
  /\ UNCHANGED <<bvars, fvars, tvars>>

NextFaulty == \E n \in RecordSizesFaulty, fault \in Faults : AddRecordFaulty(n, fault)

SpecFaulty == Init /\ [][NextFaulty]_vars

(***************************************************************************)
(* Claims on the detection of changed bytes.                               *)
(***************************************************************************)
\* the byte changed lies in the block of that name
Flipped(name) == tfault.kind = "flip" /\ tfault.at \in BlockBytes(HandleOf(name))

\* the Read of a block: its contents and its trailer
ReadOf(h) == [offset |-> h.offset_, n |-> h.size_ + kBlockTrailerSize]

\* the file was asked for the block of that name
WasRead(name) ==
  \E i \in 1..Len(world.file.reads) : world.file.reads[i] = ReadOf(HandleOf(name))

\* the last Read of the file was that of data block i, made by the one call
CallReadData(i) ==
  /\ Opened
  /\ Len(calls) = 1
  /\ calls[1].effects.reads = 1
  /\ world.file.reads[Len(world.file.reads)] = ReadOf(DataHandle(i))

DataName(i) == IF i = 1 THEN "data 1" ELSE "data 2"

\* what the one call made of the data block it read is a Corruption: the
\* iterator of BlockReader is an error iterator with that status, InternalGet
\* returns it and hands nothing to the handler
CallFailedWithCorruption ==
  IF calls[1].op = "BlockReader"
  THEN /\ world.iters[calls[1].iter].block = 0
       /\ world.iters[calls[1].iter].status.code = "Corruption"
  ELSE /\ calls[1].s.code = "Corruption"
       /\ calls[1].handled = <<>>

\* the reads that Table::Open makes under paranoid_checks find the changed
\* byte: Open fails on the index block, and goes on without a filter on the
\* metaindex and filter blocks
MetaFlipsDetected ==
  /\ (table.state = "open" /\ Flipped("index") /\ table.options.paranoid_checks)
       => /\ WasRead("index")
          /\ table.s.code = "Corruption"
          /\ table.rep = NoTable
  /\ \A name \in {"metaindex", "filter"} :
       (/\ table.state = "open"
        /\ Flipped(name)
        /\ table.options.paranoid_checks
        /\ table.options.filter_policy)
       => /\ WasRead(name)
          /\ ReadBlock(world.file, TRUE, HandleOf(name)).s.code = "Corruption"
          /\ table.s = OK
          /\ table.rep.filter = NoFilter

\* C21 as stated: with options.paranoid_checks set, changing any single byte
\* of the contents or of the 5-byte trailer of a block (index, metaindex,
\* filter or data block) makes the next read of that block fail with
\* Corruption
C21_AsStated ==
  /\ MetaFlipsDetected
  /\ \A i \in 1..Len(DataBlocks) :
       (CallReadData(i) /\ Flipped(DataName(i)) /\ table.options.paranoid_checks)
       => CallFailedWithCorruption

\* C21: a changed byte of the contents or of the trailer of a block makes the
\* next read of the block fail with Corruption when the read verifies
\* checksums: the reads of the index, metaindex and filter blocks do under
\* options.paranoid_checks, the read of a data block does under
\* ReadOptions::verify_checksums of the call
C21_FlipDetected ==
  /\ MetaFlipsDetected
  /\ \A i \in 1..Len(DataBlocks) :
       (CallReadData(i) /\ Flipped(DataName(i)) /\ table.read_options.verify_checksums)
       => CallFailedWithCorruption

\* a byte of the first data block was changed, the table was opened with
\* paranoid_checks and InternalGet, verifying checksums, read the block
C21_Witness ==
  /\ CallReadData(1)
  /\ Flipped("data 1")
  /\ table.options.paranoid_checks
  /\ table.read_options.verify_checksums
  /\ calls[1].op = "InternalGet"
  /\ calls[1].s = Corruption("block checksum mismatch")

(***************************************************************************)
(* Claims on BlockBuilder.                                                 *)
(***************************************************************************)
\* the entries of a block between offsets p and limit, as they are laid out:
\* shared, non_shared and value_length as varint32, the key delta, the value
RECURSIVE EntriesIn(_, _, _)
EntriesIn(data, p, limit) ==
  IF p >= limit THEN <<>>
  ELSE LET region == Range(data, p, limit - p)
           shared == GetVarint32(region)
           non_shared == GetVarint32(shared.rest)
           value_length == GetVarint32(non_shared.rest)
           rest == value_length.rest
           size == (Len(region) - Len(rest)) + non_shared.value + value_length.value
       IN <<[offset |-> p, shared |-> shared.value, non_shared |-> non_shared.value,
             key_delta |-> Take(rest, non_shared.value),
             value |-> Range(rest, non_shared.value, value_length.value)]>>
            \o EntriesIn(data, p + size, limit)

\* the Add calls among the calls made since construction or the last Reset
Added == SelectSeq(bcalls, LAMBDA c : c.op = "Add")

\* the number of Finish calls among the first n calls
RECURSIVE FinishesIn(_)
FinishesIn(n) ==
  IF n = 0 THEN 0 ELSE FinishesIn(n - 1) + (IF bcalls[n].op = "Finish" THEN 1 ELSE 0)
Finishes == FinishesIn(Len(bcalls))

\* the entries of the builder's buffer while the block is not finished
BufferEntries == EntriesIn(builder.buffer_, 0, Len(builder.buffer_))

\* S1: block_restart_interval = 2 and ("a","1"), ("ab","2"), ("abc","3"),
\* ("abd","4") added to a new BlockBuilder
Scenario1 ==
  /\ builder.block_restart_interval = 2
  /\ resets = <<>>
  /\ Len(bcalls) >= 4
  /\ \A i \in 1..4 : bcalls[i] = [op |-> "Add", key |-> BuilderKeys[i],
                                  value |-> BuilderValue(i)]

\* C22: in S1 the entries have (shared, unshared) = (0,1), (1,1), (0,3),
\* (2,1), the restart array is [0, offset of the "abc" entry] and
\* num_restarts is 2, in the builder and in the block that Finish returns
C22_Scenario1 ==
  /\ (Scenario1 /\ Len(bcalls) = 4)
       => /\ [i \in 1..4 |-> <<BufferEntries[i].shared, BufferEntries[i].non_shared>>]
               = << <<0, 1>>, <<1, 1>>, <<0, 3>>, <<2, 1>> >>
          /\ BufferEntries[3].key_delta = BuilderKeys[3]
          /\ builder.restarts_ = <<0, BufferEntries[3].offset>>
  /\ (Scenario1 /\ Len(bcalls) = 5 /\ bcalls[5].op = "Finish")
       => LET block == bcalls[5].result
              entries == EntriesIn(block, 0, Len(block) - 12)
          IN /\ Len(entries) = 4
             /\ [i \in 1..4 |-> <<entries[i].shared, entries[i].non_shared>>]
                  = << <<0, 1>>, <<1, 1>>, <<0, 3>>, <<2, 1>> >>
             /\ Fixed32At(block, Len(block) - 12) = <<0, 0>>
             /\ Fixed32At(block, Len(block) - 8) = <<0, entries[3].offset>>
             /\ Fixed32At(block, Len(block) - 4) = <<0, 2>>
             /\ NewBlock([data |-> block, cachable |-> FALSE,
                          heap_allocated |-> FALSE]).num_restarts = 2

\* S1 was run and the block finished
C22_Witness ==
  /\ Scenario1
  /\ Len(bcalls) = 5
  /\ bcalls[5].op = "Finish"
  /\ Len(bcalls[5].result) = 34

\* the entries of the buffer that lie from offset `from` up to offset `to`
EntriesBetween(from, to) ==
  {j \in 1..Len(BufferEntries) :
     from <= BufferEntries[j].offset /\ BufferEntries[j].offset < to}

\* C23: after Add calls since construction or the last Reset, restarts_[0]
\* is 0 and there is at least one restart, the restart offsets increase
\* strictly, the entry at every restart offset has shared = 0, counter_ is
\* between 0 and block_restart_interval, and exactly block_restart_interval
\* entries lie between two consecutive restart points
C23_Restarts ==
  Finishes = 0 =>
    LET r == builder.restarts_
        interval == builder.block_restart_interval
    IN /\ Len(BufferEntries) = Len(Added)
       /\ Len(r) >= 1
       /\ r[1] = 0
       /\ \A i \in 1..(Len(r) - 1) : r[i] < r[i + 1]
       /\ \A i \in 1..Len(r) :
            /\ (i > 1 \/ Added # <<>>)
                 => \E j \in 1..Len(BufferEntries) : BufferEntries[j].offset = r[i]
            /\ \A j \in 1..Len(BufferEntries) :
                 BufferEntries[j].offset = r[i] => BufferEntries[j].shared = 0
       /\ 0 <= builder.counter_
       /\ builder.counter_ <= interval
       /\ \A i \in 1..(Len(r) - 1) :
            Cardinality(EntriesBetween(r[i], r[i + 1])) = interval

\* after a Reset, four keys were added with a restart interval of 2: there
\* are two restart points and counter_ has reached the interval
C23_Witness ==
  /\ resets # <<>>
  /\ Finishes = 0
  /\ builder.block_restart_interval = 2
  /\ Len(Added) = 4
  /\ Len(builder.restarts_) = 2
  /\ builder.counter_ = 2
  /\ BufferEntries[3].shared = 0

\* positions in the calls: a call made before any Finish, a call that is op
Unfinished(i) == FinishesIn(i) = 0
IsCall(i, op) == i \in 1..Len(bcalls) /\ bcalls[i].op = op

\* CurrentSizeEstimate() is exact while the block is built: it reports the
\* size of the block that Finish() would return, and Finish() called next
\* returns a slice of the size reported
ExactBeforeFinish ==
  /\ (IsCall(Len(bcalls), "CurrentSizeEstimate") /\ Finishes = 0)
       => bcalls[Len(bcalls)].result = Len(BuilderFinish(builder).buffer_)
  /\ \A i \in 1..(Len(bcalls) - 1) :
       (IsCall(i, "CurrentSizeEstimate") /\ Unfinished(i) /\ IsCall(i + 1, "Finish"))
       => Len(bcalls[i + 1].result) = bcalls[i].result

\* C24 as stated: CurrentSizeEstimate() is exact at every point of a
\* builder's life: the slice returned by Finish() has the size reported just
\* before, and CurrentSizeEstimate() reports that same size after Finish()
C24_AsStated ==
  /\ ExactBeforeFinish
  /\ \A i \in 1..(Len(bcalls) - 1) :
       (IsCall(i, "Finish") /\ IsCall(i + 1, "CurrentSizeEstimate"))
       => bcalls[i + 1].result = Len(bcalls[i].result)

\* C24: CurrentSizeEstimate() is exact from construction or Reset() up to
\* Finish(): it is the size of the block, and the slice returned by Finish()
\* has the size reported just before.  After Finish() it reports the size of
\* the slice returned plus the size of the restart array and of the restart
\* count once more
C24_SizeEstimate ==
  /\ ExactBeforeFinish
  /\ \A i \in 1..(Len(bcalls) - 1) :
       (IsCall(i, "Finish") /\ IsCall(i + 1, "CurrentSizeEstimate"))
       => bcalls[i + 1].result
            = Len(bcalls[i].result) + 4 * (Len(builder.restarts_) + 1)

\* an entry was added, and CurrentSizeEstimate() was called right before and
\* right after Finish()
C24_Witness ==
  /\ Added # <<>>
  /\ \E i \in 1..(Len(bcalls) - 2) :
       /\ Unfinished(i)
       /\ IsCall(i, "CurrentSizeEstimate")
       /\ IsCall(i + 1, "Finish")
       /\ IsCall(i + 2, "CurrentSizeEstimate")
       /\ bcalls[i].result = Len(bcalls[i + 1].result)
       /\ bcalls[i + 2].result > bcalls[i].result

\* C25: after Add and Finish calls followed by Reset(), the calls made give
\* what the same calls give on a new BlockBuilder with the same options
C25_ResetAsNew ==
  resets # <<>> =>
    \A i \in 1..Len(bcalls) :
      bcalls[i].op # "Add" => bcalls[i].result = bcalls[i].twin_result

\* a builder that had entries and was finished was reset; two keys were
\* added and the block was finished again
C25_Witness ==
  /\ resets = <<[added |-> TRUE, finished |-> TRUE]>>
  /\ Len(Added) = 2
  /\ IsCall(Len(bcalls), "Finish")
  /\ bcalls[Len(bcalls)].result = bcalls[Len(bcalls)].twin_result
  /\ Len(bcalls[Len(bcalls)].result) > 8

\* C26: empty() returns true if and only if no entry was added since the
\* last Reset() or since construction, after any Add, Finish and Reset calls
C26_EmptyIffNoEntries ==
  \A i \in 1..Len(bcalls) :
    bcalls[i].op = "empty"
      => (bcalls[i].result <=> \A j \in 1..(i - 1) : bcalls[j].op # "Add")

\* the number a varint stands for, read from its bytes: 7 bits a byte, the
\* low-order group first
RECURSIVE VarintValue(_)
VarintValue(bytes) ==
  IF bytes = <<>> THEN 0 ELSE (Head(bytes) % 128) + 128 * VarintValue(Tail(bytes))

\* bytes[from + 1 ..] starts with a varint of n bytes that stands for v
VarintAt(bytes, from, n, v) ==
  /\ n >= 1
  /\ from + n <= Len(bytes)
  /\ \A i \in 1..(n - 1) : bytes[from + i] >= 128
  /\ bytes[from + n] < 128
  /\ VarintValue(Range(bytes, from, n)) = v

\* bytes is made of the four varints of the two handles, then of zeros up to
\* byte 40
HandlesThenZeros(bytes, m, i) ==
  \E a, b, c, d \in 1..10 :
    /\ VarintAt(bytes, 0, a, m.offset_)
    /\ VarintAt(bytes, a, b, m.size_)
    /\ VarintAt(bytes, a + b, c, i.offset_)
    /\ VarintAt(bytes, a + b + c, d, i.size_)
    /\ \A k \in (a + b + c + d + 1)..40 : bytes[k] = 0

\* C27: Footer::EncodeTo into an empty string gives 48 bytes: the varints of
\* the metaindex and index handles, zeros up to byte 40, and the magic
\* number in the last 8 bytes, 57 fb 80 8b 24 75 47 db; Footer::DecodeFrom of
\* these bytes returns OK and the two handles that were encoded
C27_FooterRoundTrip ==
  /\ encoded # NoString =>
       /\ Len(encoded) = 48
       /\ HandlesThenZeros(encoded, footer_.metaindex_handle, footer_.index_handle)
       /\ Skip(encoded, 40) = <<87, 251, 128, 139, 36, 117, 71, 219>>
  /\ decoded # NoFooter =>
       /\ decoded.s = OK
       /\ decoded.metaindex_handle = footer_.metaindex_handle
       /\ decoded.index_handle = footer_.index_handle

\* scenario S3: the footer of metaindex = (100, 50) and index = (200, 80) was
\* encoded and decoded
C27_Witness ==
  /\ footer_ = [metaindex_handle |-> BlockHandle(100, 50), index_handle |-> BlockHandle(200, 80)]
  /\ Take(encoded, 6) = <<100, 50, 200, 1, 80, 0>>
  /\ Len(encoded) = 48
  /\ decoded.s = OK
  /\ decoded.index_handle = BlockHandle(200, 80)

\* a reader of a log that may have been reopened, no call on its file failing
ReopenedRead ==
  phase = "read" /\ damage.kind \in {"none", "reopen"} /\ reader.file_.fail_at = 0

\* the offset in the file up to which the reader has taken fragments
Consumed == reader.end_of_buffer_offset_ - Size(reader.buffer_)

\* the reader has taken fragment j of the file
FragmentRead(j) == Len(results) >= 1 /\ Consumed >= EndInFile(writer.emitted[j])

\* the bytes of the record that was being written when the writer stopped,
\* fragment j being the first one written after it
PartialBytes(j) ==
  LengthsOf(FragmentsOf(writer.emitted[j - 1].call),
            Len(FragmentsOf(writer.emitted[j - 1].call)))

\* fragment j is a Full or First fragment that the reader has taken while it
\* was reassembling the record of the fragment before it, whose First
\* fragment it had read
Interrupted(j) ==
  /\ writer.emitted[j].type \in {kFullType, kFirstType}
  /\ writer.emitted[j - 1].type \in {kFirstType, kMiddleType}
  /\ FragmentsOf(writer.emitted[j - 1].call)[1].file_offset >= reader.initial_offset_
  /\ FragmentRead(j)

\* the report made when fragment j was taken
PartialReport(j) ==
  [bytes |-> PartialBytes(j),
   reason |-> IF writer.emitted[j].type = kFullType
              THEN "partial record without end(1)"
              ELSE "partial record without end(2)",
   at |-> EndInFile(writer.emitted[j]) - PartialBytes(j)]

ReportedPartial(j) ==
  \E i \in 1..Len(reader.reporter_) : reader.reporter_[i] = PartialReport(j)

\* the record that starts with fragment j is whole in the file
WholeFrom(j) ==
  LET fs == FragmentsOf(writer.emitted[j].call)
  IN fs[Len(fs)].type \in {kFullType, kLastType}

\* the record that starts with fragment j was returned
ReturnedFrom(j) ==
  \E i \in 1..Len(results) :
    /\ results[i].ok
    /\ results[i].offset = writer.emitted[j].file_offset
    /\ results[i].record = written[writer.emitted[j].call]

\* the fragment that ends the record starting with fragment j has been taken
ReadToEndFrom(j) ==
  LET fs == FragmentsOf(writer.emitted[j].call)
  IN WholeFrom(j) /\ Len(results) >= 1 /\ Consumed >= EndInFile(fs[Len(fs)])

\* every record returned is a record that is whole in the file
OnlyWholeRecords ==
  \A i \in 1..Len(results) :
    results[i].ok =>
      \E j \in 1..Len(writer.emitted) :
        /\ writer.emitted[j].file_offset = results[i].offset
        /\ WholeFrom(j)
        /\ results[i].record = written[writer.emitted[j].call]

\* C28 as stated: a Full or First fragment read while a fragmented record is
\* being reassembled makes ReadRecord report "partial record without end", drop
\* the partial data and return the Full payload, or the record that the First
\* starts
C28_AsStated ==
  ReopenedRead =>
    /\ OnlyWholeRecords
    /\ \A j \in 2..Len(writer.emitted) :
         Interrupted(j) =>
           /\ ReportedPartial(j)
           /\ ReadToEndFrom(j) => ReturnedFrom(j)

\* C28: a Full or First fragment read while a fragmented record is being
\* reassembled makes ReadRecord report "partial record without end" when the
\* data reassembled so far is not empty, and report nothing when it is
\* empty; in both cases the partial data is dropped and the Full payload, or
\* the record that the First starts, is returned
C28_PartialWithoutEnd ==
  ReopenedRead =>
    /\ OnlyWholeRecords
    /\ \A j \in 2..Len(writer.emitted) :
         Interrupted(j) =>
           /\ PartialBytes(j) > 0 => ReportedPartial(j)
           /\ PartialBytes(j) = 0 => reader.reporter_ = <<>>
           /\ ReadToEndFrom(j) => ReturnedFrom(j)

\* the writer stopped after the First and a Middle fragment of a record; the
\* record appended to the reopened log was returned, and the 65522 bytes of
\* the two fragments were reported
C28_Witness ==
  /\ ReopenedRead
  /\ reader.initial_offset_ = 0
  /\ \E j \in 2..Len(writer.emitted) :
       /\ Interrupted(j)
       /\ writer.emitted[j].type = kFullType
       /\ writer.emitted[j - 1].type = kMiddleType
       /\ PartialBytes(j) = 2 * (kBlockSize - kHeaderSize)
       /\ ReportedPartial(j)
       /\ ReturnedFrom(j)

\* the fragments of the file that start at or after initial_offset_
Seen == SelectSeq(writer.emitted, LAMBDA e : e.file_offset >= reader.initial_offset_)

\* where SkipToInitialBlock lets the reader start
BlockStartLocation ==
  LET offset_in_block == reader.initial_offset_ % kBlockSize
  IN IF offset_in_block > kBlockSize - 6
     THEN reader.initial_offset_ - offset_in_block + kBlockSize
     ELSE reader.initial_offset_ - offset_in_block

\* no fragment lies between the start of the block the reader starts in and
\* initial_offset_: what the reader takes first is the first fragment of Seen
StartsAtFragment ==
  \A i \in 1..Len(writer.emitted) :
    ~(/\ BlockStartLocation <= writer.emitted[i].file_offset
      /\ writer.emitted[i].file_offset < reader.initial_offset_)

\* the reader has taken a fragment of type t that starts at or after
\* initial_offset_
TakenOfType(t) ==
  \E j \in 1..Len(writer.emitted) :
    /\ writer.emitted[j].type = t
    /\ writer.emitted[j].file_offset >= reader.initial_offset_
    /\ FragmentRead(j)

\* the first fragment of Seen that is not a Middle fragment, 0 if there is none
FirstNotMiddle ==
  LET others == {i \in 1..Len(Seen) : Seen[i].type # kMiddleType}
  IN IF others = {} THEN 0 ELSE CHOOSE i \in others : \A k \in others : i <= k

\* the first call returned the record that starts with fragment i of Seen
FirstReturned(i) ==
  /\ results[1].ok
  /\ results[1].offset = Seen[i].file_offset
  /\ results[1].record = written[Seen[i].call]

\* what a resyncing reader does with the fragments it takes first: Middle
\* fragments are discarded without a report, a Last fragment is discarded
\* too, a Full or First fragment is dispatched
ResyncDiscards ==
  (/\ reader.initial_offset_ > 0
   /\ StartsAtFragment
   /\ Len(results) >= 1) =>
     /\ results[1].reports = 0
     /\ IF FirstNotMiddle = 0 THEN ~results[1].ok
        ELSE IF Seen[FirstNotMiddle].type = kLastType
        THEN IF FirstNotMiddle < Len(Seen)
             THEN FirstReturned(FirstNotMiddle + 1)
             ELSE ~results[1].ok
        ELSE FirstReturned(FirstNotMiddle)

BytesBefore(j) ==
  LET fs == FragmentsOf(writer.emitted[j].call)
      before == {i \in 1..Len(fs) : fs[i].file_offset < writer.emitted[j].file_offset}
  IN LengthsOf(fs, Cardinality(before))

\* fragment j, a Middle or Last fragment, holds the bytes that were zeroed,
\* which makes a bad record of it: its checksum no longer matches for a
\* reader that verifies checksums, or its whole header is zero; the reader
\* has read the First fragment of its record and the block with the zeroed
\* bytes
BadInMiddle(j) ==
  /\ writer.emitted[j].type \in {kMiddleType, kLastType}
  /\ writer.emitted[j].file_offset <= damage.at
  /\ damage.at < EndInFile(writer.emitted[j])
  /\ \/ reader.checksum_
     \/ damage.at = writer.emitted[j].file_offset /\ damage.n = kHeaderSize
  /\ LET first == FragmentsOf(writer.emitted[j].call)[1]
     IN /\ first.file_offset >= reader.initial_offset_
        /\ Len(results) >= 1
        /\ Consumed >= EndInFile(first)
  /\ reader.end_of_buffer_offset_ > damage.at

Garbled(j) ==
  /\ damage.kind \in {"zero", "length"}
  /\ writer.emitted[j].file_offset <= damage.at
  /\ damage.at < EndInFile(writer.emitted[j])
NextBlock(j) == (writer.emitted[j].file_offset \div kBlockSize + 1) * kBlockSize

\* fragment j is garbled and lies in a block that is whole in the file, and
\* the reader has read that block and met a checksum mismatch or a bad length
DroppedAt(j) ==
  /\ Garbled(j)
  /\ damage.kind = "length" \/ reader.checksum_
  /\ EndInFile(writer.emitted[Len(writer.emitted)]) >= NextBlock(j)
  /\ reader.file_.fail_at = 0
  /\ BlockStartLocation <= writer.emitted[j].file_offset
  /\ Consumed > damage.at
  /\ Len(results) >= 1

\* the report of the rest of the block, from the start of fragment j on
DropReport(j) ==
  [bytes |-> NextBlock(j) - writer.emitted[j].file_offset,
   reason |-> IF damage.kind = "length" THEN "bad record length" ELSE "checksum mismatch",
   at |-> writer.emitted[j].file_offset]

DropReported(j) ==
  \E i \in 1..Len(reader.reporter_) : reader.reporter_[i] = DropReport(j)

\* the records whose fragments all start at or after offset `from`, in order
RECURSIVE RecordsFrom(_, _)
RecordsFrom(c, from) ==
  IF c > Len(written) THEN <<>>
  ELSE IF \A i \in 1..Len(writer.emitted) :
            writer.emitted[i].call = c => writer.emitted[i].file_offset >= from
       THEN <<c>> \o RecordsFrom(c + 1, from)
       ELSE RecordsFrom(c + 1, from)

\* nothing that starts in the rest of the block of fragment j is returned,
\* and the records of the later blocks are returned in order, all of them
\* once a call has returned false
RestDropped(j) ==
  LET later == RecordsFrom(1, NextBlock(j))
      after == SelectSeq(results, LAMBDA x : x.ok /\ x.offset >= writer.emitted[j].file_offset)
  IN /\ \A i \in 1..Len(after) :
          /\ i <= Len(later)
          /\ after[i].record = written[later[i]]
          /\ after[i].offset = FragmentsOf(later[i])[1].file_offset
     /\ (\E i \in 1..Len(results) : ~results[i].ok) => Len(after) = Len(later)

\* C31 as stated: after a checksum mismatch or a bad length in a fragment
\* that is not at the end of the file, the rest of the block is dropped, the
\* number of bytes dropped is reported, and the intact records of the later
\* blocks are returned in order
C31_AsStated ==
  phase = "read" =>
    \A j \in 1..Len(writer.emitted) :
      DroppedAt(j) => DropReported(j) /\ RestDropped(j)

\* C31: the same, the report being made when the fragment starts at or after
\* initial_offset and not when it starts before it
C31_BlockDropped ==
  phase = "read" =>
    \A j \in 1..Len(writer.emitted) :
      DroppedAt(j) =>
        /\ writer.emitted[j].file_offset >= reader.initial_offset_ => DropReported(j)
        /\ writer.emitted[j].file_offset < reader.initial_offset_ => ~DropReported(j)
        /\ RestDropped(j)

\* the length of the first of two records of block 0 was garbled in a log of
\* two blocks: 32768 bytes were reported, the second record was not returned
\* and the record of block 1 was
C31_Witness ==
  /\ phase = "read" /\ damage.kind = "length"
  /\ reader.initial_offset_ = 0
  /\ Len(written) = 3
  /\ DroppedAt(1)
  /\ writer.emitted[2].file_offset < kBlockSize
  /\ DropReport(1).bytes = kBlockSize
  /\ DropReported(1)
  /\ results[1].ok /\ results[1].record = written[3]

(***************************************************************************)
(* C32: the block cache on a miss of BlockReader.                          *)
(***************************************************************************)
\* a step that is a BlockReader call, on a table with a block cache, with an
\* index value that decodes
BlockReaderCall ==
  /\ Len(calls') = Len(calls) + 1
  /\ calls'[Len(calls')].op = "BlockReader"
  /\ table.options.block_cache
  /\ HandleDecodeFrom(calls'[Len(calls')].index_value).s = OK

\* the handle of the call of the step, its key in the block cache, and the
\* entries of the cache under that key before the call
CalledHandle == HandleDecodeFrom(calls'[Len(calls')].index_value).handle
CalledKey == CacheKey(table.rep, CalledHandle)
CachedBefore == CacheFind(world.cache, CalledKey)

\* the block the iterator returned by the call of the step reads: 0 for an
\* error iterator
ReturnedBlock == world'.iters[calls'[Len(calls')].iter].block

\* the call of the step was served from the cache: one Lookup, no Read on
\* the file, no Block made, and the iterator reads the cached Block, which
\* holds the bytes of the block in the file
ServedFromCache ==
  /\ calls'[Len(calls')].effects =
       [reads |-> 0, cache_ops |-> <<[op |-> "Lookup", key |-> CalledKey]>>, blocks |-> 0]
  /\ \E h \in CachedBefore :
       /\ ReturnedBlock = CacheValue(world.cache, h)
       /\ world.blocks[ReturnedBlock].block.data_
            = ReadBlock(world.file, FALSE, CalledHandle).result.data

\* the call of the step put the Block it made in the cache, under the key of
\* the handle and with the size of the block as charge
InsertedInCache ==
  /\ calls'[Len(calls')].effects.cache_ops =
       <<[op |-> "Lookup", key |-> CalledKey], [op |-> "Insert", key |-> CalledKey]>>
  /\ \E h \in CacheFind(world'.cache, CalledKey) :
       /\ world'.cache.entries[h].value = ReturnedBlock
       /\ world'.cache.entries[h].charge = BlockSize(world'.blocks[ReturnedBlock].block)
  /\ ReturnedBlock = Len(world'.blocks)

\* the call of the step left the cache as it was, but for the Lookup
NotInserted ==
  /\ calls'[Len(calls')].effects.cache_ops = <<[op |-> "Lookup", key |-> CalledKey]>>
  /\ CacheFind(world'.cache, CalledKey) = {}

\* C32 as stated: a BlockReader call that finds the key of its block in the
\* cache is served from the cache without a file read, and one that does not
\* reads the block from the file once and, when the read gave a block,
\* inserts it in the cache under cache_id || offset.
C32_AsStated ==
  [][BlockReaderCall =>
       /\ CachedBefore # {} => ServedFromCache
       /\ CachedBefore = {} =>
            /\ calls'[Len(calls')].effects.reads = 1
            /\ ReturnedBlock # 0 => InsertedInCache]_vars

\* C32, amended: a BlockReader call that finds the key of its block in the
\* cache is served from the cache without a file read; one that does not
\* reads the block from the file once, and when the read gave a block it
\* inserts it under cache_id || offset if the contents are cachable (the file
\* is not memory-mapped) and options.fill_cache is set, and otherwise leaves
\* the cache without an entry for the block.
C32_MissFillsCache ==
  [][BlockReaderCall =>
       /\ CachedBefore # {} => ServedFromCache
       /\ CachedBefore = {} =>
            /\ calls'[Len(calls')].effects.reads = 1
            /\ ReturnedBlock # 0 =>
                 IF table.read_options.fill_cache /\ ~world.file.mmap
                 THEN InsertedInCache
                 ELSE NotInserted /\ calls'[Len(calls')].effects.blocks = 1]_vars

\* two BlockReader calls for the second data block: the first missed, read
\* the file and inserted the block, the second made one Lookup and no read
C32_Witness ==
  /\ Opened
  /\ table.options.block_cache
  /\ Len(calls) = 2
  /\ calls[1].op = "BlockReader" /\ calls[2].op = "BlockReader"
  /\ calls[1].index_value = calls[2].index_value
  /\ HandleDecodeFrom(calls[1].index_value).handle = DataHandle(2)
  /\ calls[1].effects.reads = 1
  /\ Len(calls[1].effects.cache_ops) = 2
  /\ calls[1].effects.cache_ops[2] =
       [op |-> "Insert", key |-> CacheKey(table.rep, DataHandle(2))]
  /\ calls[2].effects =
       [reads |-> 0,
        cache_ops |-> <<[op |-> "Lookup", key |-> CacheKey(table.rep, DataHandle(2))]>>,
        blocks |-> 0]
  /\ world.iters[calls[2].iter].block = world.iters[calls[1].iter].block

(***************************************************************************)
(* C33: what InternalGet hands to the handler.                             *)
(***************************************************************************)
\* the data block that the index seek for k chooses, as ReadBlock returns it
\* with the options of the table's calls, and its entries in order
ChosenBlock(k) ==
  ReadBlock(world.file, table.read_options.verify_checksums, ChosenHandle(k).handle)
ChosenEntries(k) == EntriesFrom(NewBlock(ChosenBlock(k).result), <<>>)

\* the number of the first entry of the chosen block whose key is >= k
\* (0: there is none)
FirstInChosen(k) ==
  LET at == {j \in 1..Len(ChosenEntries(k)) : Compare(ChosenEntries(k)[j].key, k) >= 0}
  IN IF at = {} THEN 0 ELSE CHOOSE j \in at : \A j2 \in at : j <= j2

\* InternalGet(k) gets as far as the seek in a data block: the index seek
\* found an entry, the filter did not exclude k, the handle decodes and the
\* block can be read
BlockSought(k) ==
  /\ IndexEntry(k).valid
  /\ ~(FilterConsulted(k) /\ ~FilterAnswer(k))
  /\ ChosenHandle(k).s = OK
  /\ ChosenBlock(k).s = OK

\* the cache calls of a call that looked for one block: one Lookup at most
OneLookup(cache_ops) ==
  Cardinality({n \in 1..Len(cache_ops) : cache_ops[n].op = "Lookup"}) <= 1

\* C33: an InternalGet(k) call invokes the handler at most once; it invokes
\* it exactly when it gets as far as the seek in the data block chosen by the
\* index seek and that block holds an entry whose key is >= k, and then with
\* the key and value of the first such entry; in every case it reads at most
\* one block from the file, makes at most one Block and looks up at most one
\* block in the cache.
C33_HandlerOnce ==
  \A i \in 1..Len(calls) :
    calls[i].op = "InternalGet" =>
      /\ Len(calls[i].handled) <= 1
      /\ calls[i].effects.reads <= 1
      /\ calls[i].effects.blocks <= 1
      /\ OneLookup(calls[i].effects.cache_ops)
      /\ calls[i].handled =
           IF BlockSought(calls[i].key) /\ FirstInChosen(calls[i].key) # 0
           THEN <<ChosenEntries(calls[i].key)[FirstInChosen(calls[i].key)]>>
           ELSE <<>>

\* "d" was looked up: the index seek chooses the first data block, whose keys
\* are all smaller, and the handler was not called although "e" is in the
\* second data block; "b" was looked up and the handler got the entry of "c",
\* the second of the first block
C33_Witness ==
  /\ Opened
  /\ Len(calls) = 2
  /\ calls[1].op = "InternalGet" /\ calls[1].key = <<100>>
  /\ BlockSought(<<100>>)
  /\ ChosenHandle(<<100>>).handle = DataHandle(1)
  /\ FirstInChosen(<<100>>) = 0
  /\ calls[1].handled = <<>>
  /\ calls[1].effects.reads = 1
  /\ calls[2].op = "InternalGet" /\ calls[2].key = <<98>>
  /\ FirstInChosen(<<98>>) = 2
  /\ calls[2].handled = <<[key |-> <<99>>, value |-> <<67>>]>>

(***************************************************************************)
(* C40: ApproximateOffsetOf is monotone.                                   *)
(***************************************************************************)
\* the offset in the handle of the j-th index entry
IndexOffset(j) == HandleDecodeFrom(IndexEntries[j].value).handle.offset_

\* every index entry carries a handle that decodes, with increasing offsets
\* below that of the metaindex block
IncreasingHandles ==
  \A j \in 1..Len(IndexEntries) :
    /\ HandleDecodeFrom(IndexEntries[j].value).s = OK
    /\ IndexOffset(j) < table.rep.metaindex_handle.offset_
    /\ j > 1 => IndexOffset(j - 1) < IndexOffset(j)

\* C40: on a table whose index entries carry decodable handles with
\* increasing offsets below the metaindex offset, the result of an
\* ApproximateOffsetOf(k) call is at most the metaindex offset, at least the
\* result for every key that is <= k and at most the result for every key
\* that is >= k.
C40_Monotone ==
  \A i \in 1..Len(calls) :
    calls[i].op = "ApproximateOffsetOf" /\ IncreasingHandles =>
      /\ calls[i].result <= table.rep.metaindex_handle.offset_
      /\ \A k2 \in LookupKeys :
           /\ Compare(k2, calls[i].key) <= 0
                => TableApproximateOffsetOf(table.rep, k2) <= calls[i].result
           /\ Compare(calls[i].key, k2) <= 0
                => calls[i].result <= TableApproximateOffsetOf(table.rep, k2)
           /\ TableApproximateOffsetOf(table.rep, k2) <= table.rep.metaindex_handle.offset_

\* the offset of "e" was asked for: it is that of the second data block,
\* above that of "a" and below that of "g", which is the metaindex offset
C40_Witness ==
  /\ Opened
  /\ IncreasingHandles
  /\ Len(IndexEntries) = 2
  /\ Len(calls) = 1
  /\ calls[1].op = "ApproximateOffsetOf"
  /\ calls[1].key = <<101>>
  /\ calls[1].result = DataHandle(2).offset_
  /\ TableApproximateOffsetOf(table.rep, <<97>>) = 0
  /\ calls[1].result > 0
  /\ TableApproximateOffsetOf(table.rep, <<103>>) = MetaindexHandle.offset_
  /\ calls[1].result < MetaindexHandle.offset_

(***************************************************************************)
(* C35: the block that Finish returns, decoded.                            *)
(***************************************************************************)
\* the keys and values of a sequence of entries: each key is the first
\* `shared` bytes of the key before it, followed by key_delta
RECURSIVE RebuiltFrom(_, _)
RebuiltFrom(entries, previous_key) ==
  IF entries = <<>> THEN <<>>
  ELSE LET key == Take(previous_key, Head(entries).shared) \o Head(entries).key_delta
       IN <<[key |-> key, value |-> Head(entries).value]>>
            \o RebuiltFrom(Tail(entries), key)

\* where the restart array of a block starts: num_restarts is the last
\* fixed32 of the block, the restart offsets are the fixed32s before it
RestartArrayOffset(block) ==
  Len(block) - 4 * (1 + Word(Fixed32At(block, Len(block) - 4)))

\* the keys and values read from a block, entry by entry up to the restart
\* array
DecodedBlock(block) ==
  RebuiltFrom(EntriesIn(block, 0, RestartArrayOffset(block)), <<>>)

\* the keys and values passed to Add, in the order of the calls
AddedPairs == [j \in 1..Len(Added) |-> [key |-> Added[j].key, value |-> Added[j].value]]

\* C35: the buffer that Finish() returns when called on a builder that is not
\* finished decodes, entry by entry up to the restart array and with each key
\* rebuilt from the key before it, to exactly the keys and values passed to
\* Add, in order; and once a key was added, last_key_ is the key added last.
C35_BlockRoundTrip ==
  /\ \A i \in 1..Len(bcalls) :
       IsCall(i, "Finish") /\ Unfinished(i - 1)
         => DecodedBlock(bcalls[i].result) = AddedPairs
  /\ Added # <<>> => builder.last_key_ = Added[Len(Added)].key

\* "a", "ab", "abc", "abd" were added with a restart interval of 3 and the
\* block finished: the entry of "abc" shares two bytes, that of "abd" is at a
\* restart point and shares none, and the block decodes to the four pairs
C35_Witness ==
  /\ builder.block_restart_interval = 3
  /\ Len(bcalls) = 5
  /\ Len(Added) = 4
  /\ IsCall(5, "Finish")
  /\ LET entries == EntriesIn(bcalls[5].result, 0, RestartArrayOffset(bcalls[5].result))
     IN /\ Len(entries) = 4
        /\ entries[3].shared = 2
        /\ entries[4].shared = 0
  /\ DecodedBlock(bcalls[5].result)[4] = [key |-> <<97, 98, 100>>, value |-> BuilderValue(4)]
  /\ builder.last_key_ = <<97, 98, 100>>

(***************************************************************************)
(* C38: Footer::EncodeTo appends to the destination.                       *)
(***************************************************************************)
\* C38: Footer::EncodeTo appends exactly kEncodedLength = 48 bytes to the
\* destination string and leaves the bytes that were in it unchanged,
\* whatever they are: the string has its original size plus 48 afterwards,
\* as the assertion at the end of EncodeTo says.
C38_AppendsFooter ==
  (encoded # NoString /\ original # NoString) =>
    /\ Len(encoded) = Len(original) + kEncodedLength
    /\ Take(encoded, Len(original)) = original

(***************************************************************************)
(* C39: the footer read that returns fewer than 48 bytes.                  *)
(***************************************************************************)
\* Table::Open was given a size of 48 or more that is beyond the end of the
\* file, and the Read of the footer succeeded: it returned fewer than 48
\* bytes
ShortFooterRead ==
  /\ table.state = "open"
  /\ table.size >= kEncodedLength
  /\ table.size > Len(world.file.contents)
  /\ FileReadAt(world.file, table.size - kEncodedLength, kEncodedLength).s = OK
  /\ Len(FileReadAt(world.file, table.size - kEncodedLength, kEncodedLength).data)
       < kEncodedLength

\* C39: when the Read of the footer succeeds and returns fewer than 48 bytes,
\* Table::Open returns a non-OK status and no table: it decodes no footer
\* from bytes that the Read did not return.
C39_ShortFooterRead ==
  ShortFooterRead => table.s # OK /\ table.rep = NoTable

(***************************************************************************)
(* C34: the file calls that write a fragment.                              *)
(***************************************************************************)
\* a call on the file that succeeded
FileOp(op, n) == [op |-> op, n |-> n, ok |-> TRUE]

\* the bytes left in the block when fragment i was about to be written, as
\* AddRecord computes them: a trailer of that many zeros was appended when
\* they are fewer than a header
LeftoverBefore(i) ==
  IF i = 1 THEN kBlockSize
  ELSE kBlockSize - (writer.emitted[i - 1].block_offset + kHeaderSize
                       + writer.emitted[i - 1].length)

\* the calls on the file that write fragments 1..i when none fails: for each
\* fragment the trailer of the block before it if there is one, then the
\* header, the payload and a Flush
RECURSIVE FragmentOps(_)
FragmentOps(i) ==
  IF i = 0 THEN <<>>
  ELSE FragmentOps(i - 1)
         \o (IF LeftoverBefore(i) \in 1..(kHeaderSize - 1)
             THEN <<FileOp("Append", LeftoverBefore(i))>> ELSE <<>>)
         \o <<FileOp("Append", kHeaderSize),
              FileOp("Append", writer.emitted[i].length),
              FileOp("Flush", 0)>>

\* C34: the calls made on the file are, fragment after fragment, Append of
\* the 7-byte header, Append of the payload, Flush, with nothing between them
\* and only the zero trailer of a block between the Flush of a fragment and
\* the header of the next: one Flush for every fragment, whatever its type.
C34_AppendAppendFlush ==
  writer.dest.ops = FragmentOps(Len(writer.emitted))

\* a record of 100000 bytes was written as First, Middle, Middle, Last: twelve
\* calls on the file, every third one a Flush
C34_Witness ==
  /\ Len(written) = 1
  /\ [i \in 1..Len(writer.emitted) |-> writer.emitted[i].type]
       = <<kFirstType, kMiddleType, kMiddleType, kLastType>>
  /\ Len(writer.dest.ops) = 12
  /\ \A k \in 1..12 : (writer.dest.ops[k].op = "Flush") <=> (k % 3 = 0)
  /\ writer.dest.ops[4] = FileOp("Append", kHeaderSize)

(***************************************************************************)
(* C36: AddRecord on a file whose calls fail.                              *)
(***************************************************************************)
\* the calls on the file made by the last AddRecord call, and the fragments
\* it emitted
LastOps ==
  SubSeq(writer.dest.ops, Len(writer.dest.ops) - writer.calls + 1, Len(writer.dest.ops))
LastFragments == {i \in 1..Len(writer.emitted) : writer.emitted[i].call = writer.records}

\* the k-th of these calls appends the trailer of a block: fewer than 7
\* bytes, and the header of a fragment follows; every other call is the
\* header Append, the payload Append or the Flush of a fragment
IsTrailer(k) ==
  /\ LastOps[k].op = "Append"
  /\ LastOps[k].n < kHeaderSize
  /\ k < Len(LastOps)
  /\ LastOps[k + 1].op = "Append"

\* the calls of the last AddRecord that failed while writing a fragment
FailedInFragment == {k \in 1..Len(LastOps) : ~LastOps[k].ok /\ ~IsTrailer(k)}

\* the payload bytes of the fragments from i on that the last AddRecord
\* emitted
RECURSIVE LengthFrom(_)
LengthFrom(i) ==
  IF i > Len(writer.emitted) THEN 0
  ELSE (IF i \in LastFragments THEN writer.emitted[i].length ELSE 0) + LengthFrom(i + 1)

\* C36: an AddRecord call returns a non-OK status exactly when the header
\* Append, the payload Append or the Flush of one of its fragments failed;
\* that call on the file is then the last one it made, in the last fragment
\* it emitted, so no later fragment of the record is appended; and when it
\* returns OK every fragment of the record was appended and flushed: the
\* fragments hold as many bytes as the record and each has its Flush.
C36_StopsAtFailure ==
  writer.records >= 1 =>
    /\ writer.s <=> FailedInFragment = {}
    /\ FailedInFragment \subseteq {Len(LastOps)}
    /\ ~writer.s =>
         /\ Len(writer.emitted) \in LastFragments
         /\ \A i \in LastFragments : writer.emitted[i].ok <=> i # Len(writer.emitted)
    /\ writer.s =>
         /\ \A i \in LastFragments : writer.emitted[i].ok
         /\ LengthFrom(1) = Size(written[Len(written)])
         /\ Cardinality({k \in 1..Len(LastOps) : LastOps[k] = FileOp("Flush", 0)})
              = Cardinality(LastFragments)

\* a record of 40000 bytes, and the header of its second fragment could not
\* be appended: AddRecord returned the error after four calls on the file,
\* and the file holds the first fragment only
C36_Witness ==
  /\ Len(written) = 1
  /\ Size(written[1]) = 40000
  /\ ~writer.s
  /\ Len(LastOps) = 4
  /\ LastOps[4] = [op |-> "Append", n |-> kHeaderSize, ok |-> FALSE]
  /\ Len(writer.emitted) = 2
  /\ writer.emitted[1].ok /\ ~writer.emitted[2].ok
  /\ Size(writer.dest.contents) = kBlockSize

(***************************************************************************)
(* C37: block_offset_ and the bytes in the file.                           *)
(***************************************************************************)
\* C37: after every AddRecord call, whether or not an Append or a Flush
\* failed in it, block_offset_ is congruent modulo kBlockSize to the number
\* of bytes in the file (the file was empty when the writer was made, and
\* every byte in it was appended by the writer).
C37_BlockOffsetOnGrid ==
  writer.block_offset_ % kBlockSize = Size(writer.dest.contents) % kBlockSize

====
